---- MODULE Spec2Model ----
(***************************************************************************)
(* AutoTyper: the typing engine (typing_engine.py) and the GUI handlers    *)
(* that drive it (gui.py), as a state machine.                             *)
(*                                                                         *)
(* Text is a sequence of one-character strings.  The backspace character   *)
(* '\b' that the driver sends during a correction is the string BS.        *)
(* Indices stored in records (line_index, col_index, global_index,         *)
(* next_index, typo_index) are zero-based as in the source; sequences are  *)
(* one-based, so contexts[next_index + 1] is the source's                  *)
(* contexts[next_index].                                                   *)
(***************************************************************************)
EXTENDS Integers, Sequences, FiniteSets, TLC

(* ------------------------------ bounds -------------------------------- *)
\* longest text typed in a session
MaxTextLen == 2
\* longest text given to _build_delay_contexts on its own
MaxBuildLen == 4
\* longest sleep, in polling slices of _sleep_with_controls
MaxDelay == 1
\* largest countdown, in seconds
MaxCountdown == 1
\* largest typo_awareness_max_chars of a configuration
MaxAwareness == 2
\* largest typo_cooldown_max_chars of a configuration
MaxCooldown == 1
\* how many callback invocations may raise in one run
MaxRaises == 2
\* longest piece of code given to the typo decision alone
MaxCodeLen == 4
\* longest text of a session followed through several corrections
MaxTypoLen == 4
\* longest text whose characters are given to build_typo_event one by one
MaxEventLen == 3
\* largest seed of a configuration
MaxSeed == 3
\* how many states the seeded generator has
RngStates == 16
\* largest backspace_pause_every_n of a configuration
MaxEveryN == 3
\* largest number of backspaces of a correction
MaxBackspaces == 5

(* ----------------------------- characters ----------------------------- *)
NL == "\n"
BS == "\\b"

\* the characters texts are made of: a letter with QWERTY neighbours, a
\* non-word character and the line separator
Alphabet == {"p", " ", NL}

LowerLetters ==
    << "a", "b", "c", "d", "e", "f", "g", "h", "i", "j", "k", "l", "m",
       "n", "o", "p", "q", "r", "s", "t", "u", "v", "w", "x", "y", "z" >>

UpperLetters ==
    << "A", "B", "C", "D", "E", "F", "G", "H", "I", "J", "K", "L", "M",
       "N", "O", "P", "Q", "R", "S", "T", "U", "V", "W", "X", "Y", "Z" >>

Digits == {"0", "1", "2", "3", "4", "5", "6", "7", "8", "9"}

Range(s) == {s[i] : i \in DOMAIN s}

IndexIn(s, ch) == CHOOSE i \in DOMAIN s : s[i] = ch

IsUpper(ch) == ch \in Range(UpperLetters)

IsAlpha(ch) == ch \in Range(LowerLetters) \cup Range(UpperLetters)

Lower(ch) == IF IsUpper(ch) THEN LowerLetters[IndexIn(UpperLetters, ch)] ELSE ch

Upper(ch) ==
    IF ch \in Range(LowerLetters) THEN UpperLetters[IndexIn(LowerLetters, ch)] ELSE ch

IsWordChar(ch) == IsAlpha(ch) \/ ch \in Digits \/ ch = "_"

NearbyKeys ==
    [ a |-> <<"q", "w", "s", "z">>,
      b |-> <<"v", "g", "h", "n">>,
      c |-> <<"x", "d", "f", "v">>,
      d |-> <<"e", "r", "s", "f", "c", "x">>,
      e |-> <<"w", "s", "d", "r">>,
      f |-> <<"d", "r", "t", "g", "v", "c">>,
      g |-> <<"f", "t", "y", "h", "b", "v">>,
      h |-> <<"g", "y", "u", "j", "n", "b">>,
      i |-> <<"u", "j", "k", "o">>,
      j |-> <<"h", "u", "i", "k", "m", "n">>,
      k |-> <<"j", "i", "o", "l", "m">>,
      l |-> <<"k", "o", "p">>,
      m |-> <<"n", "j", "k">>,
      n |-> <<"b", "h", "j", "m">>,
      o |-> <<"i", "k", "l", "p">>,
      p |-> <<"o", "l">>,
      q |-> <<"w", "a">>,
      r |-> <<"e", "d", "f", "t">>,
      s |-> <<"a", "w", "e", "d", "x", "z">>,
      t |-> <<"r", "f", "g", "y">>,
      u |-> <<"y", "i", "h", "j">>,
      v |-> <<"c", "f", "g", "b">>,
      w |-> <<"q", "a", "s", "e">>,
      x |-> <<"z", "s", "d", "c">>,
      y |-> <<"t", "u", "g", "h">>,
      z |-> <<"a", "s", "x">> ]

HasNearby(ch) == ch \in DOMAIN NearbyKeys

(* -------------------------- _build_delay_contexts ---------------------- *)
RECURSIVE SplitFrom(_, _, _)
SplitFrom(text, i, cur) ==
    IF i > Len(text) THEN <<cur>>
    ELSE IF text[i] = NL THEN <<cur>> \o SplitFrom(text, i + 1, <<>>)
    ELSE SplitFrom(text, i + 1, Append(cur, text[i]))

\* text.split("\n")
SplitLines(text) == SplitFrom(text, 1, <<>>)

\* the contexts of line li (the inner loop of _build_delay_contexts)
LineContexts(lines, li, global_index, prev_char) ==
    LET line == lines[li + 1]
    IN  [ c \in 1..Len(line) |->
            [ char         |-> line[c],
              line_text    |-> line,
              line_index   |-> li,
              col_index    |-> c - 1,
              global_index |-> global_index + (c - 1),
              prev_char    |-> IF c = 1 THEN prev_char ELSE line[c - 1],
              next_char    |-> IF c < Len(line) THEN line[c + 1]
                               ELSE IF li < Len(lines) - 1 THEN NL ELSE "" ] ]

\* SeparatorContext with the separator folded into the line before it
SeparatorContext_Folded(lines, li, global_index, prev_char) == <<>>

\* the separator's own context, appended after every line but the last
SeparatorContext(lines, li, global_index, prev_char) ==
    IF li < Len(lines) - 1
    THEN << [ char         |-> NL,
              line_text    |-> lines[li + 1],
              line_index   |-> li,
              col_index    |-> Len(lines[li + 1]),
              global_index |-> global_index,
              prev_char    |-> prev_char,
              next_char    |-> IF Len(lines[li + 2]) > 0 THEN lines[li + 2][1] ELSE "" ] >>
    ELSE <<>>

RECURSIVE ContextsFrom(_, _, _, _)
ContextsFrom(lines, li, global_index, prev_char) ==
    IF li >= Len(lines) THEN <<>>
    ELSE LET line  == lines[li + 1]
             chars == LineContexts(lines, li, global_index, prev_char)
             g2    == global_index + Len(line)
             prev2 == IF Len(line) > 0 THEN line[Len(line)] ELSE prev_char
             sep   == SeparatorContext(lines, li, g2, prev2)
         IN  chars \o sep \o
             ContextsFrom(lines, li + 1, g2 + Len(sep),
                          IF Len(sep) > 0 THEN NL ELSE prev2)

BuildDelayContexts(text) == ContextsFrom(SplitLines(text), 0, 0, "")

(* ------------------------------ settings ------------------------------ *)
MODE_CHAR == "char"
MODE_LINE == "line"

STATUS_IDLE      == "Idle"
STATUS_COUNTDOWN == "Countdown"
STATUS_TYPING    == "Typing"
STATUS_PAUSED    == "Paused"
STATUS_STOPPED   == "Stopped"
STATUS_DONE      == "Done"

TYPING_NORMAL           == "TYPING_NORMAL"
TYPO_ACTIVE_UNNOTICED   == "TYPO_ACTIVE_UNNOTICED"
TYPO_NOTICED_HESITATING == "TYPO_NOTICED_HESITATING"
CORRECTING_BACKSPACE    == "CORRECTING_BACKSPACE"
CORRECTING_RETYPE       == "CORRECTING_RETYPE"
RESUME_NORMAL           == "RESUME_NORMAL"

Max(a, b) == IF a >= b THEN a ELSE b
Min(a, b) == IF a <= b THEN a ELSE b

\* human_config = None
\* "seed: int | None = None": no seed
NoSeed == -1

NoConfig ==
    [ given                      |-> FALSE,
      seed                       |-> NoSeed,
      enabled                    |-> FALSE,
      burst_min_chars            |-> 0,
      burst_max_chars            |-> 0,
      typo_enabled               |-> FALSE,
      typo_probability           |-> 0,
      typo_cooldown_min_chars    |-> 0,
      typo_cooldown_max_chars    |-> 0,
      typo_awareness_min_chars   |-> 0,
      typo_awareness_max_chars   |-> 0,
      typo_awareness_word_based  |-> FALSE,
      typo_awareness_min_words   |-> 0,
      typo_awareness_max_words   |-> 0,
      correction_hesitation_min_ms |-> 0,
      backspace_pause_every_n    |-> 0,
      safe_code_typo_mode        |-> FALSE ]

\* A HumanTypingConfig with the ranges scaled to the texts of the model.
\* typo_probability is in percent.
ScaledConfig ==
    [ given                      |-> TRUE,
      seed                       |-> NoSeed,
      enabled                    |-> TRUE,
      burst_min_chars            |-> 1,
      burst_max_chars            |-> 2,
      typo_enabled               |-> TRUE,
      typo_probability           |-> 50,
      typo_cooldown_min_chars    |-> 0,
      typo_cooldown_max_chars    |-> MaxCooldown,
      typo_awareness_min_chars   |-> 1,
      typo_awareness_max_chars   |-> MaxAwareness,
      typo_awareness_word_based  |-> FALSE,
      typo_awareness_min_words   |-> 0,
      typo_awareness_max_words   |-> 1,
      correction_hesitation_min_ms |-> 0,
      backspace_pause_every_n    |-> 1,
      safe_code_typo_mode        |-> TRUE ]

\* the same settings with the "human-like" check box off
DisabledConfig == [ScaledConfig EXCEPT !.enabled = FALSE]

HumanConfigs ==
    { ScaledConfig,
      [ScaledConfig EXCEPT !.typo_awareness_word_based = TRUE] }

(* --------------------------- TypoEvent --------------------------------- *)
\* typo_event = None
NoTypo ==
    [ some                       |-> FALSE,
      original_char              |-> "",
      typed_wrong_char           |-> "",
      typo_index                 |-> 0,
      chars_typed_after_typo     |-> 0,
      awareness_threshold_chars  |-> 0,
      has_threshold_words        |-> FALSE,
      awareness_threshold_words  |-> 0,
      words_typed_after_typo     |-> 0,
      current_word_has_chars     |-> FALSE ]

chars_to_backspace(event) == event.chars_typed_after_typo + 1

TrackWordsAfterTypo(event, typed_char) ==
    IF IsWordChar(typed_char)
    THEN [event EXCEPT !.current_word_has_chars = TRUE]
    ELSE IF event.current_word_has_chars
    THEN [event EXCEPT !.words_typed_after_typo = @ + 1,
                       !.current_word_has_chars = FALSE]
    ELSE event

FinalizeTypoWordCount(event) ==
    IF event.current_word_has_chars
    THEN [event EXCEPT !.words_typed_after_typo = @ + 1,
                       !.current_word_has_chars = FALSE]
    ELSE event

(* ------------------------ delay strategies ----------------------------- *)
FIXED == "FixedDelayStrategy"
HUMAN == "HumanLikeDelayStrategy"

\* rng.random(), in percent
RandomDraws == {0, 50, 99}

\* QuoteScan closing the string at either quote character
RECURSIVE QuoteScan_AnyQuoteCloses(_, _)
QuoteScan_AnyQuoteCloses(line, n) ==
    IF n = 0 THEN <<"", FALSE>>
    ELSE LET before == QuoteScan_AnyQuoteCloses(line, n - 1)
             ch     == line[n]
         IN  IF before[2] THEN <<before[1], FALSE>>
             ELSE IF ch = "\\" THEN <<before[1], TRUE>>
             ELSE IF ch \in {"'", "\""}
                  THEN IF before[1] = "" THEN <<ch, FALSE>> ELSE <<"", FALSE>>
             ELSE before

\* the state of the scan of _likely_inside_string after the first n
\* characters of the line: <<active_quote, escaped>>
RECURSIVE QuoteScan(_, _)
QuoteScan(line, n) ==
    IF n = 0 THEN <<"", FALSE>>
    ELSE LET before == QuoteScan(line, n - 1)
             ch     == line[n]
         IN  IF before[2] THEN <<before[1], FALSE>>
             ELSE IF ch = "\\" THEN <<before[1], TRUE>>
             ELSE IF ch \in {"'", "\""}
                  THEN IF before[1] = "" THEN <<ch, FALSE>>
                       ELSE IF before[1] = ch THEN <<"", FALSE>>
                       ELSE before
             ELSE before

\* the scan stops after index col_index (i > col_index: break)
LikelyInsideString(line, col_index) ==
    QuoteScan(line, Min(Len(line), col_index + 1))[1] # ""

RECURSIVE IndentLen(_, _)
IndentLen(line, n) ==
    IF n < Len(line) /\ line[n + 1] \in {" ", "\t"} THEN IndentLen(line, n + 1) ELSE n

IsTypoCandidate(cfg, context) ==
    IF ~HasNearby(Lower(context.char)) THEN FALSE
    ELSE IF ~cfg.safe_code_typo_mode THEN TRUE
    ELSE IF ~IsAlpha(context.char) THEN FALSE
    ELSE IF "\\" \in Range(context.line_text) THEN FALSE
    ELSE IF LikelyInsideString(context.line_text, context.col_index) THEN FALSE
    ELSE IF context.col_index < IndentLen(context.line_text, 0) THEN FALSE
    ELSE TRUE

\* HumanTypoEvents without "if context.char.isupper(): wrong = wrong.upper()"
HumanTypoEvents_LowerCaseOnly(cfg, context) ==
    LET lower     == Lower(context.char)
        min_chars == Max(1, cfg.typo_awareness_min_chars)
        max_chars == Max(min_chars, cfg.typo_awareness_max_chars)
        min_words == Max(0, cfg.typo_awareness_min_words)
        max_words == Max(min_words, cfg.typo_awareness_max_words)
        words     == IF cfg.typo_awareness_word_based
                     THEN {<<TRUE, n>> : n \in min_words..max_words}
                     ELSE {<<FALSE, 0>>}
    IN  { IF wrong = context.char THEN NoTypo
          ELSE [ some                      |-> TRUE,
                 original_char             |-> context.char,
                 typed_wrong_char          |-> wrong,
                 typo_index                |-> context.global_index,
                 chars_typed_after_typo    |-> 0,
                 awareness_threshold_chars |-> ac,
                 has_threshold_words       |-> aw[1],
                 awareness_threshold_words |-> aw[2],
                 words_typed_after_typo    |-> 0,
                 current_word_has_chars    |-> FALSE ] :
          wrong \in Range(NearbyKeys[lower]), ac \in min_chars..max_chars, aw \in words }

\* the events build_typo_event may return for the draws of the generator
HumanTypoEvents(cfg, context) ==
    LET lower     == Lower(context.char)
        min_chars == Max(1, cfg.typo_awareness_min_chars)
        max_chars == Max(min_chars, cfg.typo_awareness_max_chars)
        min_words == Max(0, cfg.typo_awareness_min_words)
        max_words == Max(min_words, cfg.typo_awareness_max_words)
        words     == IF cfg.typo_awareness_word_based
                     THEN {<<TRUE, n>> : n \in min_words..max_words}
                     ELSE {<<FALSE, 0>>}
        wrongs    == {IF IsUpper(context.char) THEN Upper(k) ELSE k :
                          k \in Range(NearbyKeys[lower])}
    IN  { IF wrong = context.char THEN NoTypo
          ELSE [ some                      |-> TRUE,
                 original_char             |-> context.char,
                 typed_wrong_char          |-> wrong,
                 typo_index                |-> context.global_index,
                 chars_typed_after_typo    |-> 0,
                 awareness_threshold_chars |-> ac,
                 has_threshold_words       |-> aw[1],
                 awareness_threshold_words |-> aw[2],
                 words_typed_after_typo    |-> 0,
                 current_word_has_chars    |-> FALSE ] :
          wrong \in wrongs, ac \in min_chars..max_chars, aw \in words }

\* build_typo_event deciding by the configuration alone, whatever the strategy
build_typo_event_AnyStrategy(strategy, cfg, context) ==
    IF ~cfg.typo_enabled THEN {NoTypo}
    ELSE LET p == Max(0, Min(100, cfg.typo_probability))
         IN  {NoTypo : d \in {d \in RandomDraws : d >= p}}
             \cup (IF \E d \in RandomDraws : d < p
                   THEN IF IsTypoCandidate(cfg, context)
                        THEN HumanTypoEvents(cfg, context)
                        ELSE {NoTypo}
                   ELSE {})

build_typo_event(strategy, cfg, context) ==
    IF strategy = FIXED THEN {NoTypo}
    ELSE IF ~cfg.typo_enabled THEN {NoTypo}
    ELSE LET p == Max(0, Min(100, cfg.typo_probability))
         IN  {NoTypo : d \in {d \in RandomDraws : d >= p}}
             \cup (IF \E d \in RandomDraws : d < p
                   THEN IF IsTypoCandidate(cfg, context)
                        THEN HumanTypoEvents(cfg, context)
                        ELSE {NoTypo}
                   ELSE {})

\* typo_notice_reached with > for >= in both comparisons
typo_notice_reached_Late(strategy, event) ==
    IF strategy = FIXED THEN FALSE
    ELSE IF event.chars_typed_after_typo > event.awareness_threshold_chars THEN TRUE
    ELSE IF ~event.has_threshold_words THEN FALSE
    ELSE event.words_typed_after_typo > event.awareness_threshold_words

typo_notice_reached(strategy, event) ==
    IF strategy = FIXED THEN FALSE
    ELSE IF event.chars_typed_after_typo >= event.awareness_threshold_chars THEN TRUE
    ELSE IF ~event.has_threshold_words THEN FALSE
    ELSE event.words_typed_after_typo >= event.awareness_threshold_words

should_backspace_pause(strategy, cfg, done, total) ==
    IF strategy = FIXED THEN FALSE
    ELSE LET every_n == Max(0, cfg.backspace_pause_every_n)
         IN  IF every_n <= 0 THEN FALSE
             ELSE IF total < every_n + 1 THEN FALSE
             ELSE IF done >= total THEN FALSE
             ELSE IF done % every_n # 0 THEN FALSE
             ELSE TRUE

\* Delays are counted in polling slices of _sleep_with_controls; a positive
\* delay, however short, takes one slice at least.
correction_hesitation_delay(strategy, cfg) ==
    IF strategy = FIXED THEN {0}
    ELSE (IF Max(0, cfg.correction_hesitation_min_ms) = 0 THEN 0 ELSE 1)..MaxDelay

maybe_double_hesitation_delay(strategy) ==
    IF strategy = FIXED THEN {0} ELSE {0} \cup 1..MaxDelay

backspace_delay(strategy) ==
    IF strategy = FIXED THEN {0} ELSE 1..MaxDelay

backspace_pause_delay(strategy) ==
    IF strategy = FIXED THEN {0} ELSE 0..MaxDelay

typo_cooldown_chars(strategy, cfg) ==
    IF strategy = FIXED THEN {0}
    ELSE LET min_chars == Max(0, cfg.typo_cooldown_min_chars)
         IN  min_chars..Max(min_chars, cfg.typo_cooldown_max_chars)

\* _burst_delay_component without "self._burst_remaining -= 1"
BurstAfter_NoDecrement(cfg, burst_remaining) ==
    IF burst_remaining <= 0
    THEN Max(1, cfg.burst_min_chars)..Max(1, cfg.burst_max_chars)
    ELSE {burst_remaining}

\* _burst_remaining after _burst_delay_component, for every draw of the
\* burst length
BurstAfter(cfg, burst_remaining) ==
    LET starts == IF burst_remaining <= 0
                  THEN Max(1, cfg.burst_min_chars)..Max(1, cfg.burst_max_chars)
                  ELSE {burst_remaining}
    IN  {s - 1 : s \in starts}

\* get_delay with FixedDelayStrategy giving the character delay after the
\* separator as well
get_delay_CharDelayOnly(strategy, cfg, context, char_delay, line_delay, burst_remaining) ==
    IF strategy = FIXED
    THEN {<<Max(0, char_delay), burst_remaining>>}
    ELSE IF context.char = NL
    THEN {<<d, 0>> : d \in 1..MaxDelay}
    ELSE {<<d, b>> : d \in 1..MaxDelay, b \in BurstAfter(cfg, burst_remaining)}

\* get_delay: the pairs <<delay, _burst_remaining afterwards>> it may give
get_delay(strategy, cfg, context, char_delay, line_delay, burst_remaining) ==
    IF strategy = FIXED
    THEN {<<IF context.char = NL THEN Max(0, line_delay) ELSE Max(0, char_delay),
            burst_remaining>>}
    ELSE IF context.char = NL
    THEN {<<d, 0>> : d \in 1..MaxDelay}
    ELSE {<<d, b>> : d \in 1..MaxDelay, b \in BurstAfter(cfg, burst_remaining)}

RECURSIVE TextsUpTo(_)
TextsUpTo(n) ==
    IF n = 0 THEN {<<>>}
    ELSE LET shorter == TextsUpTo(n - 1)
         IN  shorter \cup {Append(t, ch) : t \in {s \in shorter : Len(s) = n - 1}, ch \in Alphabet}

\* "if not text.strip()" of _on_start: a text of white space only is refused
IsBlank(text) == \A i \in 1..Len(text) : text[i] \in {" ", NL, "\t"}

SessionTexts == {t \in TextsUpTo(MaxTextLen) : ~IsBlank(t)}

VARIABLES
    state,          \* the AppState shared by the GUI and the typing threads
    wk,             \* per typing thread: start_typing's arguments, the locals of
                    \* _worker and of the driver it runs, and what it has emitted
    raises_left,    \* how many callback invocations may still raise
    finish_queue,   \* the _finish calls _on_done has scheduled on the GUI thread
    input,          \* the argument of the pure function under check
    output          \* its result, once it has been applied

vars == <<state, wk, raises_left, finish_queue, input, output>>

NotApplied == [applied |-> FALSE]

\* threads start_typing may create
MaxSessions == 2

Workers == 1..MaxSessions

\* a thread start_typing has not created yet
Unstarted ==
    [ pc                      |-> "unstarted",
      mode                    |-> MODE_CHAR,
      countdown               |-> 0,
      char_delay              |-> 0,
      line_delay              |-> 0,
      human_config            |-> NoConfig,
      remaining               |-> 0,
      text                    |-> <<>>,
      strategy                |-> FIXED,
      burst_remaining         |-> 0,
      contexts                |-> <<>>,
      lines                   |-> <<>>,
      next_index              |-> 0,
      phase                   |-> TYPING_NORMAL,
      typo_event              |-> NoTypo,
      typo_cooldown_remaining |-> 0,
      to_backspace            |-> 0,
      count                   |-> 0,
      idx                     |-> 0,
      li                      |-> 0,
      ci                      |-> 0,
      global_char             |-> 0,
      slp                     |-> 0,
      slRet                   |-> "",
      wpRet                   |-> "",
      returned                |-> "none",
      sent                    |-> <<>>,
      sends_after_stop        |-> 0,
      sends_while_paused      |-> 0,
      rng                     |-> NoSeed,
      delays                  |-> <<>>,
      progress                |-> <<>>,
      done                    |-> <<>>,
      activations             |-> 0,
      clicks                  |-> <<>> ]

\* the thread start_typing creates (threading.Thread(target=_worker).start())
StartedWorker(mode, countdown, char_delay, line_delay, human_config) ==
    [ Unstarted EXCEPT !.pc = "w_start", !.mode = mode, !.countdown = countdown,
                       !.char_delay = char_delay, !.line_delay = line_delay,
                       !.human_config = human_config ]

Live(w) == wk[w].pc \notin {"unstarted", "w_end", "w_crashed"}

SessionRunning == \E w \in Workers : Live(w)

RaiseChoices == IF raises_left > 0 THEN {FALSE, TRUE} ELSE {FALSE}

Raised(raise) == raises_left' = raises_left - (IF raise THEN 1 ELSE 0)

\* AutoTyperGUI._on_progress, the progress sink
on_progress(st, line_idx, char_idx, total_lines, total_chars) ==
    [ st EXCEPT !.line_index = line_idx, !.char_index = char_idx,
                !.total_lines = total_lines, !.total_chars = total_chars ]

Progressed(r, line_idx, char_idx) ==
    [r EXCEPT !.progress = Append(@, <<line_idx, char_idx>>)]

\* send_fn(ch) has been called
Sent(r, ch) ==
    [ r EXCEPT !.sent = Append(@, ch),
               !.sends_after_stop = @ + (IF state.stop_requested THEN 1 ELSE 0),
               !.sends_while_paused =
                   @ + (IF state.is_paused /\ ~state.stop_requested THEN 1 ELSE 0) ]

\* on_done(completed, error) has been called; AutoTyperGUI._on_done schedules
\* _finish on the GUI thread unless it raises
DoneCalled(r, completed, error) == [r EXCEPT !.done = Append(@, <<completed, error>>)]

Scheduled(raise, completed, error) ==
    finish_queue' = IF raise THEN finish_queue
                    ELSE Append(finish_queue, <<completed, error>>)

\* is_paused has been written: the count of the sends made under one pause
\* starts again
PauseWritten(threads) ==
    [w \in Workers |-> [threads[w] EXCEPT !.sends_while_paused = 0]]

\* the thread's locals once _worker has left the driver for good
Cleared(r) ==
    [ Unstarted EXCEPT !.mode = r.mode, !.countdown = r.countdown,
                       !.char_delay = r.char_delay, !.line_delay = r.line_delay,
                       !.human_config = r.human_config, !.returned = r.returned,
                       !.sent = r.sent, !.sends_after_stop = r.sends_after_stop,
                       !.sends_while_paused = r.sends_while_paused,
                       !.delays = r.delays,
                       !.progress = r.progress, !.done = r.done,
                       !.activations = r.activations, !.clicks = r.clicks ]

\* the driver returns `value` to _worker
Return(r, value) ==
    [r EXCEPT !.pc = "w_finish", !.returned = value, !.slRet = "", !.wpRet = "", !.slp = 0]

(* ------------------------- the strategy's generator -------------------- *)
\* self.rng = random.Random(config.seed).  With a seed the generator is a
\* deterministic sequence: its state (rng) starts from the seed, a call of the
\* strategy that draws takes the outcome the state gives among those the call
\* may return and moves the state on.  Without a seed the generator starts
\* from the system's entropy: rng stays NoSeed and every outcome is possible
\* at every call.
InitialStates_Entropy(seed) == 0..(RngStates - 1)

InitialStates(seed) == IF seed = NoSeed THEN {NoSeed} ELSE {seed % RngStates}

NextRandom(g) == (5 * g + 3) % RngStates

RECURSIVE Nth(_, _)
Nth(S, n) ==
    LET x == CHOOSE y \in S : TRUE
    IN  IF n = 0 THEN x ELSE Nth(S \ {x}, n - 1)

\* the outcomes of a call that may return any member of S
Draw(r, S) ==
    IF r.rng = NoSeed THEN S ELSE {Nth(S, (r.rng \div 2) % Cardinality(S))}

\* the generator after such a call
Drew(r) == [r EXCEPT !.rng = IF @ = NoSeed THEN @ ELSE NextRandom(@)]

\* _sleep_with_controls(state, delay), then on at `ret`; the delays of a
\* seeded run are kept
Sleep(r, delay, ret) ==
    LET q == IF r.rng = NoSeed THEN r ELSE [r EXCEPT !.delays = Append(@, delay)]
    IN  IF delay <= 0 THEN [q EXCEPT !.pc = ret]
        ELSE [q EXCEPT !.pc = "sl_stop", !.slp = delay, !.slRet = ret]

\* _wait_while_paused(state), then on at `ret`
Wait(r, ret) == [r EXCEPT !.pc = "wp_loop", !.wpRet = ret]

(* ------------------------- start_typing._worker ------------------------ *)
\* status = STATUS_COUNTDOWN and the countdown loop is entered
WorkerBegin(w) ==
    /\ wk[w].pc = "w_start"
    /\ state' = [state EXCEPT !.status = STATUS_COUNTDOWN]
    /\ wk' = [wk EXCEPT ![w] =
                [@ EXCEPT !.remaining = wk[w].countdown,
                          !.pc = IF wk[w].countdown > 0 THEN "cd_loop" ELSE "w_activate"]]
    /\ UNCHANGED <<raises_left, finish_queue, input, output>>

\* CountdownTick reporting the seconds left after the coming sleep
CountdownTick_OffByOne(w) ==
    /\ wk[w].pc = "cd_loop"
    /\ \E raise \in RaiseChoices :
        /\ Raised(raise)
        /\ IF state.stop_requested
           THEN /\ state' = [state EXCEPT !.status = STATUS_STOPPED]
                /\ Scheduled(raise, FALSE, "")
                /\ wk' = [wk EXCEPT ![w] =
                            [DoneCalled(@, FALSE, "") EXCEPT
                                !.pc = IF raise THEN "w_except" ELSE "w_end"]]
           ELSE /\ state' = IF raise THEN state
                            ELSE on_progress(state, -1, wk[w].remaining - 1, 0, 0)
                /\ UNCHANGED finish_queue
                /\ wk' = [wk EXCEPT ![w] =
                            [Progressed(@, -1, @.remaining - 1) EXCEPT
                                !.pc = IF raise THEN "w_except" ELSE "cd_sleep"]]
    /\ UNCHANGED <<input, output>>

\* one pass of the countdown loop up to time.sleep(1)
CountdownTick(w) ==
    /\ wk[w].pc = "cd_loop"
    /\ \E raise \in RaiseChoices :
        /\ Raised(raise)
        /\ IF state.stop_requested
           THEN /\ state' = [state EXCEPT !.status = STATUS_STOPPED]
                /\ Scheduled(raise, FALSE, "")
                /\ wk' = [wk EXCEPT ![w] =
                            [DoneCalled(@, FALSE, "") EXCEPT
                                !.pc = IF raise THEN "w_except" ELSE "w_end"]]
           ELSE /\ state' = IF raise THEN state
                            ELSE on_progress(state, -1, wk[w].remaining, 0, 0)
                /\ UNCHANGED finish_queue
                /\ wk' = [wk EXCEPT ![w] =
                            [Progressed(@, -1, @.remaining) EXCEPT
                                !.pc = IF raise THEN "w_except" ELSE "cd_sleep"]]
    /\ UNCHANGED <<input, output>>

\* time.sleep(1) ends; the loop goes on or is left
CountdownSleep(w) ==
    /\ wk[w].pc = "cd_sleep"
    /\ wk' = [wk EXCEPT ![w] =
                [@ EXCEPT !.remaining = @ - 1,
                          !.pc = IF wk[w].remaining - 1 > 0 THEN "cd_loop" ELSE "w_activate"]]
    /\ UNCHANGED <<state, raises_left, finish_queue, input, output>>

\* Activate without the "return" after its on_done call: the failure is
\* reported and the session goes on
Activate_NoReturn(w) ==
    /\ wk[w].pc = "w_activate"
    /\ \E ok \in BOOLEAN, raise \in RaiseChoices :
        /\ state.target_hwnd = 0 => ok
        /\ ok => ~raise
        /\ Raised(raise)
        /\ IF ok
           THEN /\ wk' = [wk EXCEPT ![w] =
                            [@ EXCEPT !.pc = "w_click",
                                      !.activations =
                                          @ + (IF state.target_hwnd # 0 THEN 1 ELSE 0)]]
                /\ UNCHANGED <<state, finish_queue>>
           ELSE /\ state' = [state EXCEPT !.status = STATUS_STOPPED]
                /\ Scheduled(raise, FALSE, "Could not activate target window")
                /\ wk' = [wk EXCEPT ![w] =
                            [DoneCalled(@, FALSE, "Could not activate target window")
                                EXCEPT !.activations = @ + 1,
                                       !.pc = IF raise THEN "w_except" ELSE "w_click"]]
    /\ UNCHANGED <<input, output>>

\* activate_window(state.target_hwnd); either result is possible
Activate(w) ==
    /\ wk[w].pc = "w_activate"
    /\ \E ok \in BOOLEAN, raise \in RaiseChoices :
        /\ state.target_hwnd = 0 => ok
        /\ ok => ~raise
        /\ Raised(raise)
        /\ IF ok
           THEN /\ wk' = [wk EXCEPT ![w] =
                            [@ EXCEPT !.pc = "w_click",
                                      !.activations =
                                          @ + (IF state.target_hwnd # 0 THEN 1 ELSE 0)]]
                /\ UNCHANGED <<state, finish_queue>>
           ELSE /\ state' = [state EXCEPT !.status = STATUS_STOPPED]
                /\ Scheduled(raise, FALSE, "Could not activate target window")
                /\ wk' = [wk EXCEPT ![w] =
                            [DoneCalled(@, FALSE, "Could not activate target window")
                                EXCEPT !.activations = @ + 1,
                                       !.pc = IF raise THEN "w_except" ELSE "w_end"]]
    /\ UNCHANGED <<input, output>>

\* the optional click_at(coord_x, coord_y)
Click(w) ==
    /\ wk[w].pc = "w_click"
    /\ \E raise \in RaiseChoices :
        /\ raise => state.use_coords /\ (state.coord_x # 0 \/ state.coord_y # 0)
        /\ Raised(raise)
        /\ wk' = [wk EXCEPT ![w] =
                    [@ EXCEPT !.pc = IF raise THEN "w_except" ELSE "w_setup",
                              !.clicks =
                                  IF state.use_coords
                                     /\ (state.coord_x # 0 \/ state.coord_y # 0)
                                  THEN Append(@, <<state.coord_x, state.coord_y>>)
                                  ELSE @]]
    /\ UNCHANGED <<state, finish_queue, input, output>>

\* SelectStrategy choosing by human_config alone, line mode included
SelectStrategy_IgnoresMode(mode, human_config) ==
    IF human_config.given /\ human_config.enabled THEN HUMAN ELSE FIXED

\* "if human_config and human_config.enabled and mode != MODE_LINE"
SelectStrategy(mode, human_config) ==
    IF human_config.given /\ human_config.enabled /\ mode # MODE_LINE
    THEN HUMAN ELSE FIXED

\* status = STATUS_TYPING, the strategy is chosen and the driver is entered:
\* its first lines build the contexts and set the totals
Setup(w) ==
    /\ wk[w].pc = "w_setup"
    /\ LET text     == state.text
           r        == wk[w]
           strategy == SelectStrategy(r.mode, r.human_config)
           lines    == SplitLines(text)
           seeds    == IF strategy = HUMAN
                       THEN InitialStates(r.human_config.seed) ELSE {NoSeed}
       IN  /\ state' = [state EXCEPT !.status = STATUS_TYPING,
                                     !.total_lines = Len(lines),
                                     !.total_chars = Len(text)]
           /\ \E g \in seeds :
               wk' = [wk EXCEPT ![w] =
                       [@ EXCEPT !.text = text,
                                 !.strategy = strategy,
                                 !.rng = g,
                                 !.delays = <<>>,
                                 !.burst_remaining = 0,
                                 !.lines = lines,
                                 !.contexts = IF r.mode = MODE_LINE THEN <<>>
                                              ELSE BuildDelayContexts(text),
                                 !.next_index = 0,
                                 !.phase = TYPING_NORMAL,
                                 !.typo_event = NoTypo,
                                 !.typo_cooldown_remaining = 0,
                                 !.global_char = 0,
                                 !.li = 0,
                                 !.pc = IF r.mode = MODE_LINE THEN "l_top" ELSE "c_top"]]
    /\ UNCHANGED <<raises_left, finish_queue, input, output>>

\* FinalStatus reporting STATUS_DONE whatever the driver returned
FinalStatus_AlwaysDone(completed) == STATUS_DONE

\* STATUS_DONE if completed else STATUS_STOPPED
FinalStatus(completed) == IF completed THEN STATUS_DONE ELSE STATUS_STOPPED

\* state.status = STATUS_DONE if completed else STATUS_STOPPED; on_done(completed, "")
Finish(w) ==
    /\ wk[w].pc = "w_finish"
    /\ \E raise \in RaiseChoices :
        LET completed == wk[w].returned = "True"
        IN  /\ Raised(raise)
            /\ state' = [state EXCEPT !.status = FinalStatus(completed)]
            /\ Scheduled(raise, completed, "")
            /\ wk' = [wk EXCEPT ![w] =
                        [DoneCalled(Cleared(@), completed, "") EXCEPT
                            !.pc = IF raise THEN "w_except" ELSE "w_end"]]
    /\ UNCHANGED <<input, output>>

\* except Exception: status = STATUS_STOPPED; on_done(False, "Error: ...")
Except(w) ==
    /\ wk[w].pc = "w_except"
    /\ \E raise \in RaiseChoices :
        /\ Raised(raise)
        /\ state' = [state EXCEPT !.status = STATUS_STOPPED]
        /\ Scheduled(raise, FALSE, "Error")
        /\ wk' = [wk EXCEPT ![w] =
                    [DoneCalled(Cleared(@), FALSE, "Error") EXCEPT
                        !.pc = IF raise THEN "w_crashed" ELSE "w_end"]]
    /\ UNCHANGED <<input, output>>

(* ------------------ _wait_while_paused, _sleep_with_controls ----------- *)
\* while state.is_paused
WaitLoop(w) ==
    /\ wk[w].pc = "wp_loop"
    /\ wk' = [wk EXCEPT ![w] =
                [@ EXCEPT !.pc = IF state.is_paused THEN "wp_stop" ELSE "wp_ret"]]
    /\ UNCHANGED <<state, raises_left, finish_queue, input, output>>

\* WaitStop without its stop check: the pause loop only sleeps
WaitStop_Unchecked(w) ==
    /\ wk[w].pc = "wp_stop"
    /\ wk' = [wk EXCEPT ![w] = [@ EXCEPT !.pc = "wp_loop"]]
    /\ UNCHANGED <<state, raises_left, finish_queue, input, output>>

\* if state.stop_requested: return False; else time.sleep(0.05)
WaitStop(w) ==
    /\ wk[w].pc = "wp_stop"
    /\ wk' = [wk EXCEPT ![w] =
                IF state.stop_requested THEN Return(@, "False")
                ELSE [@ EXCEPT !.pc = "wp_loop"]]
    /\ UNCHANGED <<state, raises_left, finish_queue, input, output>>

\* return not state.stop_requested
WaitReturn(w) ==
    /\ wk[w].pc = "wp_ret"
    /\ wk' = [wk EXCEPT ![w] =
                IF state.stop_requested THEN Return(@, "False")
                ELSE [@ EXCEPT !.pc = wk[w].wpRet, !.wpRet = ""]]
    /\ UNCHANGED <<state, raises_left, finish_queue, input, output>>

\* the sleep loop's "if state.stop_requested: return False"
SleepStop(w) ==
    /\ wk[w].pc = "sl_stop"
    /\ wk' = [wk EXCEPT ![w] =
                IF state.stop_requested THEN Return(@, "False")
                ELSE [@ EXCEPT !.pc = "sl_pause"]]
    /\ UNCHANGED <<state, raises_left, finish_queue, input, output>>

\* the rest of one pass: a pause is waited out (the deadline moves with it),
\* else the deadline is met or one slice is slept
SleepStep(w) ==
    /\ wk[w].pc = "sl_pause"
    /\ wk' = [wk EXCEPT ![w] =
                IF state.is_paused THEN Wait(@, "sl_stop")
                ELSE IF @.slp <= 0 THEN [@ EXCEPT !.pc = wk[w].slRet, !.slRet = ""]
                ELSE [@ EXCEPT !.slp = @ - 1, !.pc = "sl_stop"]]
    /\ UNCHANGED <<state, raises_left, finish_queue, input, output>>

(* --------------------------- _type_char_by_char ------------------------ *)
\* CharTop without the two checks at the head of the loop: the stop flag is
\* left to the sleeps
CharTop_Unchecked(w) ==
    /\ wk[w].pc = "c_top"
    /\ wk' = [wk EXCEPT ![w] = [@ EXCEPT !.pc = "c_phase"]]
    /\ UNCHANGED <<state, raises_left, finish_queue, input, output>>

\* CharTop without "_wait_while_paused(state)" at the head of the loop
CharTop_NoPauseWait(w) ==
    /\ wk[w].pc = "c_top"
    /\ wk' = [wk EXCEPT ![w] =
                IF state.stop_requested THEN Return(@, "False")
                ELSE [@ EXCEPT !.pc = "c_phase"]]
    /\ UNCHANGED <<state, raises_left, finish_queue, input, output>>

\* the head of the while loop: "if state.stop_requested: return False", then
\* _wait_while_paused
CharTop(w) ==
    /\ wk[w].pc = "c_top"
    /\ wk' = [wk EXCEPT ![w] =
                IF state.stop_requested THEN Return(@, "False") ELSE Wait(@, "c_phase")]
    /\ UNCHANGED <<state, raises_left, finish_queue, input, output>>

\* CharExhausted returning True at the end of the contexts whatever the phase
CharExhausted_NoFinalCorrection(w) ==
    /\ wk[w].pc = "c_phase"
    /\ wk[w].phase \in {TYPING_NORMAL, TYPO_ACTIVE_UNNOTICED}
    /\ wk[w].next_index >= Len(wk[w].contexts)
    /\ wk' = [wk EXCEPT ![w] = Return(@, "True")]
    /\ UNCHANGED <<state, raises_left, finish_queue, input, output>>

\* TYPING_NORMAL or TYPO_ACTIVE_UNNOTICED with the contexts exhausted
CharExhausted(w) ==
    /\ wk[w].pc = "c_phase"
    /\ wk[w].phase \in {TYPING_NORMAL, TYPO_ACTIVE_UNNOTICED}
    /\ wk[w].next_index >= Len(wk[w].contexts)
    /\ wk' = [wk EXCEPT ![w] =
                IF @.phase = TYPO_ACTIVE_UNNOTICED /\ @.typo_event.some
                THEN [@ EXCEPT !.typo_event = FinalizeTypoWordCount(@),
                               !.phase = TYPO_NOTICED_HESITATING,
                               !.pc = "c_top"]
                ELSE Return(@, "True")]
    /\ UNCHANGED <<state, raises_left, finish_queue, input, output>>

\* AfterEmit without "if typo_cooldown_remaining > 0": every emission counts
\* the cooldown down
AfterEmit_AlwaysCountsDown(r, context, candidate) ==
    LET injected == candidate.some
        phase1   == IF injected THEN TYPO_ACTIVE_UNNOTICED ELSE r.phase
        event1   == IF injected THEN candidate ELSE r.typo_event
        tracking == phase1 = TYPO_ACTIVE_UNNOTICED /\ event1.some /\ ~injected
        event2   == IF tracking
                    THEN TrackWordsAfterTypo(
                             [event1 EXCEPT !.chars_typed_after_typo = @ + 1],
                             context.char)
                    ELSE event1
        phase2   == IF tracking /\ typo_notice_reached(r.strategy, event2)
                    THEN TYPO_NOTICED_HESITATING ELSE phase1
    IN  [ r EXCEPT !.next_index = @ + 1,
                   !.typo_cooldown_remaining = @ - 1,
                   !.typo_event = event2,
                   !.phase = phase2 ]

\* AfterEmit without "and not injected": the emission that injects the typo is
\* counted and may notice it at once
AfterEmit_TracksInjected(r, context, candidate) ==
    LET injected == candidate.some
        phase1   == IF injected THEN TYPO_ACTIVE_UNNOTICED ELSE r.phase
        event1   == IF injected THEN candidate ELSE r.typo_event
        cooldown == IF r.typo_cooldown_remaining > 0
                    THEN r.typo_cooldown_remaining - 1
                    ELSE r.typo_cooldown_remaining
        tracking == phase1 = TYPO_ACTIVE_UNNOTICED /\ event1.some
        event2   == IF tracking
                    THEN TrackWordsAfterTypo(
                             [event1 EXCEPT !.chars_typed_after_typo = @ + 1],
                             context.char)
                    ELSE event1
        phase2   == IF tracking /\ typo_notice_reached(r.strategy, event2)
                    THEN TYPO_NOTICED_HESITATING ELSE phase1
    IN  [ r EXCEPT !.next_index = @ + 1,
                   !.typo_cooldown_remaining = cooldown,
                   !.typo_event = event2,
                   !.phase = phase2 ]

\* the worker's locals after one emission of contexts[next_index]: the typo
\* decision taken (candidate), the character sent, the counters and the phase
AfterEmit(r, context, candidate) ==
    LET injected == candidate.some
        phase1   == IF injected THEN TYPO_ACTIVE_UNNOTICED ELSE r.phase
        event1   == IF injected THEN candidate ELSE r.typo_event
        cooldown == IF r.typo_cooldown_remaining > 0
                    THEN r.typo_cooldown_remaining - 1
                    ELSE r.typo_cooldown_remaining
        tracking == phase1 = TYPO_ACTIVE_UNNOTICED /\ event1.some /\ ~injected
        event2   == IF tracking
                    THEN TrackWordsAfterTypo(
                             [event1 EXCEPT !.chars_typed_after_typo = @ + 1],
                             context.char)
                    ELSE event1
        phase2   == IF tracking /\ typo_notice_reached(r.strategy, event2)
                    THEN TYPO_NOTICED_HESITATING ELSE phase1
    IN  [ r EXCEPT !.next_index = @ + 1,
                   !.typo_cooldown_remaining = cooldown,
                   !.typo_event = event2,
                   !.phase = phase2 ]

\* EmitChar sending the source character although a typo was injected
EmitChar_AlwaysSource(context, candidate) == context.char

\* what send_fn is given for contexts[next_index]
EmitChar(context, candidate) ==
    IF candidate.some THEN candidate.typed_wrong_char ELSE context.char

\* TypoCandidates without "phase == TypingPhase.TYPING_NORMAL"
TypoCandidates_AnyPhase(r, context) ==
    IF r.typo_cooldown_remaining <= 0
    THEN build_typo_event(r.strategy, r.human_config, context)
    ELSE {NoTypo}

\* TypoCandidates without "typo_cooldown_remaining <= 0"
TypoCandidates_IgnoresCooldown(r, context) ==
    IF r.phase = TYPING_NORMAL
    THEN build_typo_event(r.strategy, r.human_config, context)
    ELSE {NoTypo}

\* the candidates of one emission: build_typo_event is asked only in
\* TYPING_NORMAL with the cooldown run out
TypoCandidates(r, context) ==
    IF r.phase = TYPING_NORMAL /\ r.typo_cooldown_remaining <= 0
    THEN build_typo_event(r.strategy, r.human_config, context)
    ELSE {NoTypo}

\* ProgressAfterEmit without the call of on_progress
ProgressAfterEmit_Dropped(r, context) == r

\* on_progress is called after the character of TYPING_NORMAL or
\* TYPO_ACTIVE_UNNOTICED has been sent
ProgressAfterEmit(r, context) == Progressed(r, context.line_index, r.next_index)

\* one emission in TYPING_NORMAL or TYPO_ACTIVE_UNNOTICED, up to the sleep.
\* raise: "send" (send_fn raises), "progress" (on_progress raises) or "none"
CharEmit(w) ==
    /\ wk[w].pc = "c_phase"
    /\ wk[w].phase \in {TYPING_NORMAL, TYPO_ACTIVE_UNNOTICED}
    /\ wk[w].next_index < Len(wk[w].contexts)
    /\ LET r       == wk[w]
           context == r.contexts[r.next_index + 1]
           consulted == r.phase = TYPING_NORMAL /\ r.typo_cooldown_remaining <= 0
       IN  \E candidate \in Draw(r, TypoCandidates(r, context)),
              raise \in {"none"} \cup (IF raises_left > 0 THEN {"send", "progress"} ELSE {}) :
             LET sent == Sent(IF consulted THEN Drew(r) ELSE r,
                              EmitChar(context, candidate))
                 emitted == AfterEmit(sent, context, candidate)
             IN  /\ Raised(raise # "none")
                 /\ state' =
                        LET st == [state EXCEPT !.line_index = context.line_index,
                                                !.char_index = r.next_index]
                        IN  IF raise = "none"
                            THEN on_progress(st, context.line_index, r.next_index + 1,
                                             st.total_lines, st.total_chars)
                            ELSE st
                 /\ IF raise = "send"
                    THEN wk' = [wk EXCEPT ![w] = [sent EXCEPT !.pc = "w_except"]]
                    ELSE IF raise = "progress"
                    THEN wk' = [wk EXCEPT ![w] =
                                  [ProgressAfterEmit([sent EXCEPT !.next_index = @ + 1],
                                                     context)
                                      EXCEPT !.pc = "w_except"]]
                    ELSE \E dl \in Draw(emitted,
                                        get_delay(r.strategy, r.human_config, context,
                                                  r.char_delay, r.line_delay,
                                                  r.burst_remaining)) :
                           wk' = [wk EXCEPT ![w] =
                                    Sleep([Drew(ProgressAfterEmit(emitted, context))
                                              EXCEPT !.burst_remaining = dl[2]],
                                          dl[1], "c_top")]
    /\ UNCHANGED <<finish_queue, input, output>>

\* TYPO_NOTICED_HESITATING: the hesitation before the correction
Hesitate(w) ==
    /\ wk[w].pc = "c_phase"
    /\ wk[w].phase = TYPO_NOTICED_HESITATING
    /\ IF ~wk[w].typo_event.some
       THEN wk' = [wk EXCEPT ![w] = [@ EXCEPT !.phase = RESUME_NORMAL, !.pc = "c_top"]]
       ELSE \E hesitation \in Draw(wk[w], correction_hesitation_delay(
                                             wk[w].strategy, wk[w].human_config)) :
              wk' = [wk EXCEPT ![w] = Sleep(Drew(@), hesitation, "h_second")]
    /\ UNCHANGED <<state, raises_left, finish_queue, input, output>>

\* the optional second hesitation
HesitateAgain(w) ==
    /\ wk[w].pc = "h_second"
    /\ \E second_pause \in Draw(wk[w], maybe_double_hesitation_delay(wk[w].strategy)) :
         wk' = [wk EXCEPT ![w] = Sleep(Drew(@), second_pause, "h_done")]
    /\ UNCHANGED <<state, raises_left, finish_queue, input, output>>

\* phase = CORRECTING_BACKSPACE; continue
HesitateDone(w) ==
    /\ wk[w].pc = "h_done"
    /\ wk' = [wk EXCEPT ![w] = [@ EXCEPT !.phase = CORRECTING_BACKSPACE, !.pc = "c_top"]]
    /\ UNCHANGED <<state, raises_left, finish_queue, input, output>>

\* ToBackspace counting one character before the typo as well
ToBackspace_OneTooMany(r) == Max(0, r.next_index - r.typo_event.typo_index + 1)

\* ToBackspace with the typo's own position left out of the count
ToBackspace_OffByOne(r) == Max(0, r.next_index - r.typo_event.typo_index - 1)

\* how many backspaces CORRECTING_BACKSPACE sends
ToBackspace(r) == Max(0, r.next_index - r.typo_event.typo_index)

\* CORRECTING_BACKSPACE is entered: to_backspace is computed
BackspaceBegin(w) ==
    /\ wk[w].pc = "c_phase"
    /\ wk[w].phase = CORRECTING_BACKSPACE
    /\ wk' = [wk EXCEPT ![w] =
                IF ~@.typo_event.some
                THEN [@ EXCEPT !.phase = RESUME_NORMAL, !.pc = "c_top"]
                ELSE [@ EXCEPT !.to_backspace = ToBackspace(wk[w]), !.count = 1,
                               !.pc = "bs_loop"]]
    /\ UNCHANGED <<state, raises_left, finish_queue, input, output>>

\* BackspaceLoop over range(1, to_backspace): the last backspace is left out
BackspaceLoop_StopsEarly(w) ==
    /\ wk[w].pc = "bs_loop"
    /\ wk' = [wk EXCEPT ![w] =
                IF @.count >= @.to_backspace
                THEN [@ EXCEPT !.phase = CORRECTING_RETYPE, !.pc = "c_top",
                               !.count = 0, !.to_backspace = 0]
                ELSE IF state.stop_requested THEN Return(@, "False")
                ELSE Wait(@, "bs_send")]
    /\ UNCHANGED <<state, raises_left, finish_queue, input, output>>

\* the head of the backspace loop: the range is used up, or the stop flag is
\* read and a pause waited out
BackspaceLoop(w) ==
    /\ wk[w].pc = "bs_loop"
    /\ wk' = [wk EXCEPT ![w] =
                IF @.count > @.to_backspace
                THEN [@ EXCEPT !.phase = CORRECTING_RETYPE, !.pc = "c_top",
                               !.count = 0, !.to_backspace = 0]
                ELSE IF state.stop_requested THEN Return(@, "False")
                ELSE Wait(@, "bs_send")]
    /\ UNCHANGED <<state, raises_left, finish_queue, input, output>>

\* send_fn("\b"), then the backspace delay
BackspaceSend(w) ==
    /\ wk[w].pc = "bs_send"
    /\ \E raise \in RaiseChoices,
          delay \in Draw(wk[w], backspace_delay(wk[w].strategy)) :
        /\ Raised(raise)
        /\ wk' = [wk EXCEPT ![w] =
                    IF raise THEN [Sent(@, BS) EXCEPT !.pc = "w_except"]
                    ELSE Sleep(Drew(Sent(@, BS)), delay, "bs_pause")]
    /\ UNCHANGED <<state, finish_queue, input, output>>

\* the mid-correction pause, when should_backspace_pause says so
BackspacePause(w) ==
    /\ wk[w].pc = "bs_pause"
    /\ IF should_backspace_pause(wk[w].strategy, wk[w].human_config,
                                 wk[w].count, wk[w].to_backspace)
       THEN \E pause_s \in Draw(wk[w], backspace_pause_delay(wk[w].strategy)) :
              wk' = [wk EXCEPT ![w] = Sleep(Drew(@), pause_s, "bs_next")]
       ELSE wk' = [wk EXCEPT ![w] = [@ EXCEPT !.pc = "bs_next"]]
    /\ UNCHANGED <<state, raises_left, finish_queue, input, output>>

\* the next count of the backspace loop
BackspaceNext(w) ==
    /\ wk[w].pc = "bs_next"
    /\ wk' = [wk EXCEPT ![w] = [@ EXCEPT !.count = @ + 1, !.pc = "bs_loop"]]
    /\ UNCHANGED <<state, raises_left, finish_queue, input, output>>

\* CORRECTING_RETYPE is entered: idx starts at typo_index
RetypeBegin(w) ==
    /\ wk[w].pc = "c_phase"
    /\ wk[w].phase = CORRECTING_RETYPE
    /\ wk' = [wk EXCEPT ![w] =
                IF ~@.typo_event.some
                THEN [@ EXCEPT !.phase = RESUME_NORMAL, !.pc = "c_top"]
                ELSE [@ EXCEPT !.idx = wk[w].typo_event.typo_index, !.pc = "rt_loop"]]
    /\ UNCHANGED <<state, raises_left, finish_queue, input, output>>

\* the head of the retype loop: the range is used up (the cooldown is drawn
\* and the phase becomes RESUME_NORMAL), or the stop flag is read and a pause
\* waited out
RetypeLoop(w) ==
    /\ wk[w].pc = "rt_loop"
    /\ IF wk[w].idx >= wk[w].next_index
       THEN \E cooldown \in Draw(wk[w], typo_cooldown_chars(wk[w].strategy,
                                                            wk[w].human_config)) :
              wk' = [wk EXCEPT ![w] =
                       [Drew(@) EXCEPT !.typo_cooldown_remaining = cooldown,
                                 !.phase = RESUME_NORMAL, !.pc = "c_top", !.idx = 0]]
       ELSE wk' = [wk EXCEPT ![w] =
                     IF state.stop_requested THEN Return(@, "False")
                     ELSE Wait(@, "rt_send")]
    /\ UNCHANGED <<state, raises_left, finish_queue, input, output>>

\* state.line_index = context.line_index; send_fn(context.char); the delay
RetypeSend(w) ==
    /\ wk[w].pc = "rt_send"
    /\ LET r       == wk[w]
           context == r.contexts[r.idx + 1]
       IN  \E raise \in RaiseChoices,
              dl \in Draw(r, get_delay(r.strategy, r.human_config, context,
                                       r.char_delay, r.line_delay, r.burst_remaining)) :
             /\ Raised(raise)
             /\ state' = [state EXCEPT !.line_index = context.line_index]
             /\ wk' = [wk EXCEPT ![w] =
                         IF raise THEN [Sent(@, context.char) EXCEPT !.pc = "w_except"]
                         ELSE Sleep([Drew(Sent(@, context.char)) EXCEPT
                                        !.burst_remaining = dl[2]],
                                    dl[1], "rt_next")]
    /\ UNCHANGED <<finish_queue, input, output>>

\* the next idx of the retype loop
RetypeNext(w) ==
    /\ wk[w].pc = "rt_next"
    /\ wk' = [wk EXCEPT ![w] = [@ EXCEPT !.idx = @ + 1, !.pc = "rt_loop"]]
    /\ UNCHANGED <<state, raises_left, finish_queue, input, output>>

\* Resume without "phase = TypingPhase.TYPING_NORMAL"
Resume_KeepsPhase(w) ==
    /\ wk[w].pc = "c_phase"
    /\ wk[w].phase = RESUME_NORMAL
    /\ wk' = [wk EXCEPT ![w] = [@ EXCEPT !.typo_event = NoTypo, !.pc = "c_top"]]
    /\ UNCHANGED <<state, raises_left, finish_queue, input, output>>

\* RESUME_NORMAL: typo_event = None; phase = TYPING_NORMAL
Resume(w) ==
    /\ wk[w].pc = "c_phase"
    /\ wk[w].phase = RESUME_NORMAL
    /\ wk' = [wk EXCEPT ![w] =
                [@ EXCEPT !.typo_event = NoTypo, !.phase = TYPING_NORMAL, !.pc = "c_top"]]
    /\ UNCHANGED <<state, raises_left, finish_queue, input, output>>

(* --------------------------- _type_line_by_line ------------------------ *)
\* the head of the loop over the lines: the lines are used up (return True),
\* or the stop flag is read and a pause waited out
LineTop(w) ==
    /\ wk[w].pc = "l_top"
    /\ wk' = [wk EXCEPT ![w] =
                IF @.li >= Len(@.lines) THEN Return(@, "True")
                ELSE IF state.stop_requested THEN Return(@, "False")
                ELSE Wait(@, "l_line")]
    /\ UNCHANGED <<state, raises_left, finish_queue, input, output>>

\* state.line_index = li; the loop over the line's characters is entered
LineBegin(w) ==
    /\ wk[w].pc = "l_line"
    /\ state' = [state EXCEPT !.line_index = wk[w].li]
    /\ wk' = [wk EXCEPT ![w] = [@ EXCEPT !.ci = 0, !.pc = "l_char"]]
    /\ UNCHANGED <<raises_left, finish_queue, input, output>>

\* LineCharCheck without the read of the stop flag
LineCharCheck_Unchecked(w) ==
    /\ wk[w].pc = "l_char"
    /\ wk[w].ci < Len(wk[w].lines[wk[w].li + 1])
    /\ wk' = [wk EXCEPT ![w] = [@ EXCEPT !.pc = "l_send"]]
    /\ UNCHANGED <<state, raises_left, finish_queue, input, output>>

\* "if state.stop_requested: return False" before a character of the line
LineCharCheck(w) ==
    /\ wk[w].pc = "l_char"
    /\ wk[w].ci < Len(wk[w].lines[wk[w].li + 1])
    /\ wk' = [wk EXCEPT ![w] =
                IF state.stop_requested THEN Return(@, "False")
                ELSE [@ EXCEPT !.pc = "l_send"]]
    /\ UNCHANGED <<state, raises_left, finish_queue, input, output>>

\* send_fn(ch)
LineCharSend(w) ==
    /\ wk[w].pc = "l_send"
    /\ \E raise \in RaiseChoices :
        /\ Raised(raise)
        /\ wk' = [wk EXCEPT ![w] =
                    [Sent(@, @.lines[@.li + 1][@.ci + 1]) EXCEPT
                        !.ci = @ + 1,
                        !.pc = IF raise THEN "w_except" ELSE "l_char"]]
    /\ UNCHANGED <<state, finish_queue, input, output>>

\* SendsSeparator sending the separator after the last line as well
SendsSeparator_Always(r) == TRUE

\* is the separator sent after line li
SendsSeparator(r) == r.li < Len(r.lines) - 1

\* the line's characters are sent: the separator, on_progress, the line delay.
\* raise: "send" (send_fn raises), "progress" (on_progress raises) or "none"
LineEnd(w) ==
    /\ wk[w].pc = "l_char"
    /\ wk[w].ci >= Len(wk[w].lines[wk[w].li + 1])
    /\ LET r    == wk[w]
           sep  == SendsSeparator(r)
           gc   == r.global_char + Len(r.lines[r.li + 1]) + (IF sep THEN 1 ELSE 0)
           sent == IF sep THEN Sent(r, NL) ELSE r
       IN  \E raise \in {"none"} \cup (IF raises_left > 0
                                       THEN (IF sep THEN {"send"} ELSE {}) \cup {"progress"}
                                       ELSE {}) :
             /\ Raised(raise # "none")
             /\ state' = IF raise = "none"
                         THEN on_progress(state, r.li, gc, state.total_lines,
                                          state.total_chars)
                         ELSE state
             /\ wk' = [wk EXCEPT ![w] =
                         IF raise = "send" THEN [sent EXCEPT !.pc = "w_except"]
                         ELSE IF raise = "progress"
                         THEN [Progressed(sent, r.li, gc) EXCEPT
                                  !.global_char = gc, !.pc = "w_except"]
                         ELSE Sleep([Progressed(sent, r.li, gc) EXCEPT
                                        !.global_char = gc, !.ci = 0],
                                    r.line_delay, "l_next")]
    /\ UNCHANGED <<finish_queue, input, output>>

\* the next line
LineNext(w) ==
    /\ wk[w].pc = "l_next"
    /\ wk' = [wk EXCEPT ![w] = [@ EXCEPT !.li = @ + 1, !.pc = "l_top"]]
    /\ UNCHANGED <<state, raises_left, finish_queue, input, output>>

(* ------------------------------ the observer -------------------------- *)
\* The thread that started the session sets the flags the worker polls.
RequestStop ==
    /\ SessionRunning
    /\ ~state.stop_requested
    /\ state' = [state EXCEPT !.stop_requested = TRUE]
    /\ UNCHANGED <<wk, raises_left, finish_queue, input, output>>

RequestPause ==
    /\ SessionRunning
    /\ ~state.is_paused
    /\ state' = [state EXCEPT !.is_paused = TRUE]
    /\ wk' = PauseWritten(wk)
    /\ UNCHANGED <<raises_left, finish_queue, input, output>>

ReleasePause ==
    /\ SessionRunning
    /\ state.is_paused
    /\ state' = [state EXCEPT !.is_paused = FALSE]
    /\ wk' = PauseWritten(wk)
    /\ UNCHANGED <<raises_left, finish_queue, input, output>>

(* ------------------------------ AutoTyperGUI --------------------------- *)
\* what the spin boxes and check boxes of the window hold when Start is pressed
GuiTexts == {<<"p">>}

GuiConfigs == {DisabledConfig}

\* _on_start, for a text that is not blank and a selected target window, with
\* the coordinate click off.  Clearing stop_requested also ends the count of
\* the sends made under the stop request it wipes out.
OnStart(w) ==
    /\ wk[w].pc = "unstarted"
    /\ \A v \in Workers : v < w => wk[v].pc # "unstarted"
    /\ state.target_hwnd # 0
    /\ state.status \notin {STATUS_TYPING, STATUS_COUNTDOWN, STATUS_PAUSED}
    /\ \E text \in GuiTexts, mode \in {MODE_CHAR, MODE_LINE},
          char_delay \in 1..MaxDelay, line_delay \in 0..MaxDelay,
          countdown \in 0..MaxCountdown, human_config \in GuiConfigs :
        /\ state' = [state EXCEPT !.text = text, !.is_paused = FALSE,
                                  !.stop_requested = FALSE, !.line_index = 0,
                                  !.char_index = 0, !.use_coords = FALSE,
                                  !.coord_x = 0, !.coord_y = 0]
        /\ wk' = [v \in Workers |->
                    IF v = w
                    THEN StartedWorker(mode, countdown, char_delay, line_delay,
                                       human_config)
                    ELSE [wk[v] EXCEPT !.sends_after_stop = 0,
                                       !.sends_while_paused = 0]]
    /\ UNCHANGED <<raises_left, finish_queue, input, output>>

\* _on_pause: pause when typing, resume when paused
OnPause ==
    /\ state.status \in {STATUS_TYPING, STATUS_PAUSED}
    /\ state' = IF state.status = STATUS_TYPING
                THEN [state EXCEPT !.is_paused = TRUE, !.status = STATUS_PAUSED]
                ELSE [state EXCEPT !.is_paused = FALSE, !.status = STATUS_TYPING]
    /\ wk' = PauseWritten(wk)
    /\ UNCHANGED <<raises_left, finish_queue, input, output>>

\* _on_stop
OnStop ==
    /\ state' = [state EXCEPT !.stop_requested = TRUE, !.is_paused = FALSE,
                              !.status = STATUS_STOPPED]
    /\ wk' = PauseWritten(wk)
    /\ UNCHANGED <<raises_left, finish_queue, input, output>>

\* _finish(completed, error_msg), which _on_done scheduled with root.after
GuiFinish ==
    /\ finish_queue # <<>>
    /\ LET completed == Head(finish_queue)[1]
           error_msg == Head(finish_queue)[2]
       IN  /\ state' = IF error_msg # "" THEN [state EXCEPT !.status = STATUS_STOPPED]
                       ELSE IF completed THEN [state EXCEPT !.status = STATUS_DONE]
                       ELSE state
    /\ finish_queue' = Tail(finish_queue)
    /\ UNCHANGED <<wk, raises_left, input, output>>

(* ---------------------------- specifications --------------------------- *)
\* the click settings of a session: off, on at (0, 0), on elsewhere
CoordChoices == {<<FALSE, 0, 0>>, <<TRUE, 0, 0>>, <<TRUE, 5, 7>>}

\* <<mode, human_config, char_delay, line_delay>> of a session; a delay the
\* chosen driver and strategy never read is 0
DriverChoices ==
    {<<MODE_CHAR, NoConfig, cd, ld>> : cd \in 0..MaxDelay, ld \in 0..MaxDelay}
    \cup {<<MODE_CHAR, hc, 0, 0>> : hc \in HumanConfigs}
    \cup {<<MODE_LINE, NoConfig, 0, ld>> : ld \in 0..MaxDelay}
    \cup {<<MODE_LINE, ScaledConfig, 0, 0>>, <<MODE_CHAR, DisabledConfig, 0, 0>>}

\* The sessions of the model, <<text, driver choice, countdown, click setting>>:
\* every text under every driver choice with no countdown and no click, and
\* every countdown and click setting with one short text typed at a fixed
\* delay.  (The countdown and the click end before the driver starts and
\* share nothing with it but the stop and pause flags.)
Sessions ==
    {<<text, dc, 0, <<FALSE, 0, 0>>>> : text \in SessionTexts, dc \in DriverChoices}
    \cup {<<<<"p">>, <<MODE_CHAR, NoConfig, 1, 0>>, countdown, coords>> :
             countdown \in 0..MaxCountdown, coords \in CoordChoices}

\* start_typing has just been called on a fresh AppState for `session`
SessionStarted(session) ==
         /\ state = [ status         |-> STATUS_IDLE,
                      text           |-> session[1],
                      line_index     |-> 0,
                      char_index     |-> 0,
                      total_chars    |-> 0,
                      total_lines    |-> 0,
                      is_paused      |-> FALSE,
                      stop_requested |-> FALSE,
                      target_hwnd    |-> 1,
                      coord_x        |-> session[4][2],
                      coord_y        |-> session[4][3],
                      use_coords     |-> session[4][1] ]
         /\ wk = [ w \in Workers |->
                     IF w = 1
                     THEN StartedWorker(session[2][1], session[3], session[2][3],
                                        session[2][4], session[2][2])
                     ELSE Unstarted ]

\* One session.
Init ==
    /\ \E session \in Sessions : SessionStarted(session)
    /\ raises_left = MaxRaises
    /\ finish_queue = <<>>
    /\ input = <<>>
    /\ output = NotApplied

Prelude(w) ==
    \/ WorkerBegin(w)
    \/ CountdownTick(w)
    \/ CountdownSleep(w)
    \/ Activate(w)
    \/ Click(w)
    \/ Setup(w)

Controls(w) ==
    \/ WaitLoop(w)
    \/ WaitStop(w)
    \/ WaitReturn(w)
    \/ SleepStop(w)
    \/ SleepStep(w)

CharDriver(w) ==
    \/ CharTop(w)
    \/ CharExhausted(w)
    \/ CharEmit(w)

Correction(w) ==
    \/ Hesitate(w)
    \/ HesitateAgain(w)
    \/ HesitateDone(w)
    \/ BackspaceBegin(w)
    \/ BackspaceLoop(w)
    \/ BackspaceSend(w)
    \/ BackspacePause(w)
    \/ BackspaceNext(w)
    \/ RetypeBegin(w)
    \/ RetypeLoop(w)
    \/ RetypeSend(w)
    \/ RetypeNext(w)
    \/ Resume(w)

LineDriver(w) ==
    \/ LineTop(w)
    \/ LineBegin(w)
    \/ LineCharCheck(w)
    \/ LineCharSend(w)
    \/ LineEnd(w)
    \/ LineNext(w)

\* a step of a typing thread
WorkerStep ==
    \E w \in Workers :
        \/ Prelude(w) \/ Controls(w) \/ CharDriver(w) \/ Correction(w)
        \/ LineDriver(w) \/ Finish(w) \/ Except(w)

Next ==
    \/ \E w \in Workers :
         \/ Prelude(w)
         \/ Controls(w)
         \/ CharDriver(w)
         \/ Correction(w)
         \/ LineDriver(w)
         \/ Finish(w)
         \/ Except(w)
    \/ RequestStop
    \/ RequestPause
    \/ ReleasePause

Spec == Init /\ [][Next]_vars

(* -------------------- one session, scheduled fairly -------------------- *)
\* Sessions typed at a fixed delay, followed to their end: every text in
\* both modes after every countdown.
FairSessions ==
    { <<text, dc, countdown, <<FALSE, 0, 0>>>> :
        text \in SessionTexts,
        dc \in { <<MODE_CHAR, NoConfig, MaxDelay, MaxDelay>>,
                 <<MODE_LINE, NoConfig, 0, MaxDelay>> },
        countdown \in 0..MaxCountdown }

InitFair ==
    /\ \E session \in FairSessions : SessionStarted(session)
    /\ raises_left = MaxRaises
    /\ finish_queue = <<>>
    /\ input = <<>>
    /\ output = NotApplied

\* a step of the typing thread of such a session
FairWorkerStep ==
    \E w \in Workers :
        \/ Prelude(w) \/ Controls(w) \/ CharDriver(w) \/ LineDriver(w)
        \/ Finish(w) \/ Except(w)

NextFair ==
    \/ FairWorkerStep
    \/ RequestStop
    \/ RequestPause
    \/ ReleasePause

\* threading.Thread(target=_worker).start(): the thread is scheduled again and
\* again until _worker returns, and every time.sleep in it ends
SpecFair == InitFair /\ [][NextFair]_vars /\ WF_vars(FairWorkerStep)

\* Char-mode sessions with HumanLikeDelayStrategy over texts long enough for
\* typing to go on after a correction, taken up where _worker has finished
\* the countdown, the activation and the click and is about to enter the
\* driver; the callbacks do not raise.  The texts are one word, every
\* character of which may be mistyped.
TypoTexts == {[i \in 1..n |-> "p"] : n \in 1..MaxTypoLen}

InitTypo ==
    /\ \E text \in TypoTexts, hc \in HumanConfigs :
         /\ state = [ status         |-> STATUS_COUNTDOWN,
                      text           |-> text,
                      line_index     |-> 0,
                      char_index     |-> 0,
                      total_chars    |-> 0,
                      total_lines    |-> 0,
                      is_paused      |-> FALSE,
                      stop_requested |-> FALSE,
                      target_hwnd    |-> 1,
                      coord_x        |-> 0,
                      coord_y        |-> 0,
                      use_coords     |-> FALSE ]
         /\ wk = [ w \in Workers |->
                     IF w = 1
                     THEN [ StartedWorker(MODE_CHAR, 0, 0, 0, hc)
                              EXCEPT !.pc = "w_setup", !.activations = 1 ]
                     ELSE Unstarted ]
    /\ raises_left = 0
    /\ finish_queue = <<>>
    /\ input = <<>>
    /\ output = NotApplied

NextTypo ==
    \/ \E w \in Workers :
         \/ Setup(w)
         \/ Controls(w)
         \/ CharDriver(w)
         \/ Correction(w)
         \/ Finish(w)
    \/ RequestPause
    \/ ReleasePause

SpecTypo == InitTypo /\ [][NextTypo]_vars

\* a step of the typing thread of such a session
TypoWorkerStep ==
    \E w \in Workers :
        \/ Setup(w) \/ Controls(w) \/ CharDriver(w) \/ Correction(w) \/ Finish(w)

\* The same sessions with the typing thread scheduled again and again until
\* _worker returns; the pause flag is written by the user, whom nothing
\* obliges.
SpecTypoFair == InitTypo /\ [][NextTypo]_vars /\ WF_vars(TypoWorkerStep)

\* Two char-mode sessions with HumanLikeDelayStrategy, one after the other,
\* over the same text with the same seeded configuration; nobody pauses or
\* stops them and the callbacks do not raise.  Each is taken up where _worker
\* is about to enter the driver.
SeedConfigs == {[hc EXCEPT !.seed = seed] : hc \in HumanConfigs, seed \in 0..MaxSeed}

SeedTexts == {t \in TextsUpTo(MaxTypoLen) : ~IsBlank(t)}

\* the thread of a session that has reached the driver
DriverReady(human_config) ==
    [ StartedWorker(MODE_CHAR, 0, 0, 0, human_config)
        EXCEPT !.pc = "w_setup", !.activations = 1 ]

InitSeed ==
    /\ \E text \in SeedTexts, hc \in SeedConfigs :
         /\ state = [ status         |-> STATUS_COUNTDOWN,
                      text           |-> text,
                      line_index     |-> 0,
                      char_index     |-> 0,
                      total_chars    |-> 0,
                      total_lines    |-> 0,
                      is_paused      |-> FALSE,
                      stop_requested |-> FALSE,
                      target_hwnd    |-> 1,
                      coord_x        |-> 0,
                      coord_y        |-> 0,
                      use_coords     |-> FALSE ]
         /\ wk = [ w \in Workers |-> IF w = 1 THEN DriverReady(hc) ELSE Unstarted ]
    /\ raises_left = 0
    /\ finish_queue = <<>>
    /\ input = <<>>
    /\ output = NotApplied

\* the first session is over: start_typing is called again with the same
\* text and configuration, and its thread reaches the driver
SecondRun ==
    /\ wk[1].pc = "w_end"
    /\ wk[2].pc = "unstarted"
    /\ state' = [state EXCEPT !.status = STATUS_COUNTDOWN, !.line_index = 0,
                              !.char_index = 0]
    /\ wk' = [wk EXCEPT ![2] = DriverReady(wk[1].human_config)]
    /\ UNCHANGED <<raises_left, finish_queue, input, output>>

NextSeed ==
    \/ \E w \in Workers :
         \/ Setup(w)
         \/ WaitLoop(w)
         \/ WaitReturn(w)
         \/ SleepStop(w)
         \/ SleepStep(w)
         \/ CharDriver(w)
         \/ Correction(w)
         \/ Finish(w)
    \/ SecondRun

SpecSeed == InitSeed /\ [][NextSeed]_vars

\* The window: no session yet, a target window selected, human-like mode off,
\* callbacks that do not raise.
InitGui ==
    /\ state = [ status         |-> STATUS_IDLE,
                 text           |-> <<>>,
                 line_index     |-> 0,
                 char_index     |-> 0,
                 total_chars    |-> 0,
                 total_lines    |-> 0,
                 is_paused      |-> FALSE,
                 stop_requested |-> FALSE,
                 target_hwnd    |-> 1,
                 coord_x        |-> 0,
                 coord_y        |-> 0,
                 use_coords     |-> FALSE ]
    /\ wk = [w \in Workers |-> Unstarted]
    /\ raises_left = 0
    /\ finish_queue = <<>>
    /\ input = <<>>
    /\ output = NotApplied

NextGui ==
    \/ \E w \in Workers :
         \/ OnStart(w)
         \/ Prelude(w)
         \/ Controls(w)
         \/ CharDriver(w)
         \/ LineDriver(w)
         \/ Finish(w)
    \/ OnPause
    \/ OnStop
    \/ GuiFinish

SpecGui == InitGui /\ [][NextGui]_vars

(* ------------------------ the context builder alone -------------------- *)
InitBuild ==
    /\ input \in TextsUpTo(MaxBuildLen)
    /\ output = NotApplied
    /\ state = [status |-> STATUS_IDLE]
    /\ wk = [w \in Workers |-> Unstarted]
    /\ raises_left = 0
    /\ finish_queue = <<>>

ApplyBuild ==
    /\ output = NotApplied
    /\ output' = [ applied  |-> TRUE,
                   contexts |-> BuildDelayContexts(input),
                   lines    |-> SplitLines(input) ]
    /\ UNCHANGED <<input, state, wk, raises_left, finish_queue>>

NextBuild == ApplyBuild

SpecBuild == InitBuild /\ [][NextBuild]_vars

(* ------------------------ FixedDelayStrategy alone --------------------- *)
\* FixedDelayStrategy(char_delay_s, line_delay_s) asked about every character
\* of a text
InitFixed ==
    /\ input \in [ text       : TextsUpTo(MaxBuildLen),
                   char_delay : 0..MaxDelay,
                   line_delay : 0..MaxDelay ]
    /\ output = NotApplied
    /\ state = [status |-> STATUS_IDLE]
    /\ wk = [w \in Workers |-> Unstarted]
    /\ raises_left = 0
    /\ finish_queue = <<>>

ApplyFixed ==
    /\ output = NotApplied
    /\ LET contexts == BuildDelayContexts(input.text)
       IN  output' =
             [ applied |-> TRUE,
               events  |-> [ k \in 1..Len(contexts) |->
                               build_typo_event(FIXED, ScaledConfig, contexts[k]) ],
               delays  |-> [ k \in 1..Len(contexts) |->
                               { d[1] : d \in get_delay(FIXED, ScaledConfig, contexts[k],
                                                        input.char_delay,
                                                        input.line_delay, 0) } ] ]
    /\ UNCHANGED <<input, state, wk, raises_left, finish_queue>>

NextFixed == ApplyFixed

SpecFixed == InitFixed /\ [][NextFixed]_vars

(* ------------------ the typo decision in safe-code mode ---------------- *)
\* the characters of a piece of code: a letter, a blank, the two quotes, the
\* backslash and the line separator
CodeAlphabet == {"p", " ", "'", "\"", "\\", NL}

RECURSIVE CodeUpTo(_)
CodeUpTo(n) ==
    IF n = 0 THEN {<<>>}
    ELSE LET shorter == CodeUpTo(n - 1)
         IN  shorter \cup {Append(t, ch) : t \in {s \in shorter : Len(s) = n - 1},
                                           ch \in CodeAlphabet}

\* HumanLikeDelayStrategy(config) with safe_code_typo_mode on, asked for a
\* typo at every character of a text
InitSafe ==
    /\ input \in CodeUpTo(MaxCodeLen)
    /\ output = NotApplied
    /\ state = [status |-> STATUS_IDLE]
    /\ wk = [w \in Workers |-> Unstarted]
    /\ raises_left = 0
    /\ finish_queue = <<>>

ApplySafe ==
    /\ output = NotApplied
    /\ LET contexts == BuildDelayContexts(input)
       IN  output' =
             [ applied  |-> TRUE,
               contexts |-> contexts,
               events   |-> [ k \in 1..Len(contexts) |->
                                build_typo_event(HUMAN, ScaledConfig, contexts[k]) ] ]
    /\ UNCHANGED <<input, state, wk, raises_left, finish_queue>>

NextSafe == ApplySafe

SpecSafe == InitSafe /\ [][NextSafe]_vars

\* build_typo_event of HumanLikeDelayStrategy on its own, for every character
\* of a text of letters of both cases, a digit, a symbol, a tab and the
\* separators, with the safe-code mode on and off.
EventAlphabet == {"p", "P", "7", ";", "\t", " ", NL}

RECURSIVE EventTextsUpTo(_)
EventTextsUpTo(n) ==
    IF n = 0 THEN {<<>>}
    ELSE LET shorter == EventTextsUpTo(n - 1)
         IN  shorter \cup {Append(t, ch) : t \in {s \in shorter : Len(s) = n - 1},
                                           ch \in EventAlphabet}

EventConfigs == {ScaledConfig, [ScaledConfig EXCEPT !.safe_code_typo_mode = FALSE]}

InitEvent ==
    /\ input \in [text : EventTextsUpTo(MaxEventLen), config : EventConfigs]
    /\ output = NotApplied
    /\ state = [status |-> STATUS_IDLE]
    /\ wk = [w \in Workers |-> Unstarted]
    /\ raises_left = 0
    /\ finish_queue = <<>>

ApplyEvent ==
    /\ output = NotApplied
    /\ LET contexts == BuildDelayContexts(input.text)
       IN  output' =
             [ applied  |-> TRUE,
               contexts |-> contexts,
               events   |-> [ k \in 1..Len(contexts) |->
                                build_typo_event(HUMAN, input.config, contexts[k]) ] ]
    /\ UNCHANGED <<input, state, wk, raises_left, finish_queue>>

NextEvent == ApplyEvent

SpecEvent == InitEvent /\ [][NextEvent]_vars

\* should_backspace_pause of HumanLikeDelayStrategy on its own, for every
\* backspace_pause_every_n (negative and zero included) and every pair of
\* counts.
InitPause ==
    /\ input \in [ every_n : -1..MaxEveryN,
                   done    : 0..MaxBackspaces,
                   total   : 0..MaxBackspaces ]
    /\ output = NotApplied
    /\ state = [status |-> STATUS_IDLE]
    /\ wk = [w \in Workers |-> Unstarted]
    /\ raises_left = 0
    /\ finish_queue = <<>>

ApplyPause ==
    /\ output = NotApplied
    /\ output' =
         [ applied |-> TRUE,
           pause   |-> should_backspace_pause(
                           HUMAN,
                           [ScaledConfig EXCEPT !.backspace_pause_every_n = input.every_n],
                           input.done, input.total) ]
    /\ UNCHANGED <<input, state, wk, raises_left, finish_queue>>

NextPause == ApplyPause

SpecPause == InitPause /\ [][NextPause]_vars

(***************************************************************************)
(* _sleep_with_controls against a clock.  The clock counts ticks of 10 ms; *)
(* only time.sleep lets it advance, the statements between the sleeps take *)
(* no time.  The pause flag is written by the GUI thread at any instant,   *)
(* also in the middle of a time.sleep.  `unpaused' is a ghost that counts  *)
(* the ticks that elapsed while the flag was down, from the call on.       *)
(***************************************************************************)
MaxSleep == 3
MaxPauses == 2
MaxClock == 12
SLICE == 2
PAUSE_POLL == 5

SleepCall(delay_s) ==
    [ pc        |-> IF delay_s <= 0 THEN "returned" ELSE "sl_stop",
      result    |-> delay_s <= 0,
      now       |-> 0,
      deadline  |-> delay_s,
      paused_at |-> 0,
      wake      |-> 0,
      unpaused  |-> 0,
      pauses    |-> 0 ]

InitSleep ==
    /\ input \in [delay_s : 0..MaxSleep]
    /\ output = SleepCall(input.delay_s)
    /\ state = [status |-> STATUS_TYPING, is_paused |-> FALSE, stop_requested |-> FALSE]
    /\ wk = [w \in Workers |-> Unstarted]
    /\ raises_left = 0
    /\ finish_queue = <<>>

SleepReturn(o, value) == [o EXCEPT !.pc = "returned", !.result = value]

\* Top of the loop of _sleep_with_controls: the stop test.
TimedStopCheck ==
    /\ output.pc = "sl_stop"
    /\ output' = IF state.stop_requested THEN SleepReturn(output, FALSE)
                 ELSE [output EXCEPT !.pc = "sl_pause"]
    /\ UNCHANGED <<input, state, wk, raises_left, finish_queue>>

\* The pause test, then the deadline test and the next slice.
TimedPauseCheck ==
    /\ output.pc = "sl_pause"
    /\ output' =
         IF state.is_paused
         THEN [output EXCEPT !.paused_at = output.now, !.pc = "wp_loop"]
         ELSE LET remaining == output.deadline - output.now
              IN  IF remaining <= 0 THEN SleepReturn(output, TRUE)
                  ELSE [output EXCEPT !.wake = output.now + Min(SLICE, remaining),
                                      !.pc = "sl_sleep"]
    /\ UNCHANGED <<input, state, wk, raises_left, finish_queue>>

\* _wait_while_paused: one turn of its loop, or its return, after which
\* the deadline moves by the time measured since paused_at.
TimedWaitLoop ==
    /\ output.pc = "wp_loop"
    /\ output' =
         IF state.is_paused
         THEN IF state.stop_requested THEN SleepReturn(output, FALSE)
              ELSE [output EXCEPT !.wake = output.now + PAUSE_POLL, !.pc = "wp_sleep"]
         ELSE IF state.stop_requested THEN SleepReturn(output, FALSE)
              ELSE [output EXCEPT !.deadline = @ + (output.now - output.paused_at),
                                  !.pc = "sl_stop"]
    /\ UNCHANGED <<input, state, wk, raises_left, finish_queue>>

\* A time.sleep in progress: the clock advances one tick.
TimedTick ==
    /\ output.pc \in {"sl_sleep", "wp_sleep"}
    /\ output.now < output.wake
    /\ output.now < MaxClock
    /\ output' = [output EXCEPT !.now = @ + 1,
                                !.unpaused = @ + (IF state.is_paused THEN 0 ELSE 1)]
    /\ UNCHANGED <<input, state, wk, raises_left, finish_queue>>

\* A time.sleep ends.
TimedWake ==
    /\ output.pc \in {"sl_sleep", "wp_sleep"}
    /\ output.now = output.wake
    /\ output' = [output EXCEPT !.pc = IF output.pc = "sl_sleep" THEN "sl_stop" ELSE "wp_loop"]
    /\ UNCHANGED <<input, state, wk, raises_left, finish_queue>>

\* The GUI thread: _on_pause and _on_stop while the sleep runs.
TimedTogglePause ==
    /\ output.pc # "returned"
    /\ state.status \in {STATUS_TYPING, STATUS_PAUSED}
    /\ state.status = STATUS_PAUSED \/ output.pauses < MaxPauses
    /\ state' = IF state.status = STATUS_TYPING
                 THEN [state EXCEPT !.is_paused = TRUE, !.status = STATUS_PAUSED]
                 ELSE [state EXCEPT !.is_paused = FALSE, !.status = STATUS_TYPING]
    /\ output' = [output EXCEPT !.pauses = @ + (IF state.is_paused THEN 0 ELSE 1)]
    /\ UNCHANGED <<input, wk, raises_left, finish_queue>>

TimedRequestStop ==
    /\ output.pc # "returned"
    /\ ~state.stop_requested
    /\ state' = [state EXCEPT !.stop_requested = TRUE, !.is_paused = FALSE,
                               !.status = STATUS_STOPPED]
    /\ UNCHANGED <<input, output, wk, raises_left, finish_queue>>

NextSleep ==
    \/ TimedStopCheck
    \/ TimedPauseCheck
    \/ TimedWaitLoop
    \/ TimedTick
    \/ TimedWake
    \/ TimedTogglePause
    \/ TimedRequestStop

SpecSleep == InitSleep /\ [][NextSleep]_vars

(***************************************************************************)
(* The configurations the program builds: the dataclass defaults, the      *)
(* presets of human_profile_defaults, the typo timing of                   *)
(* apply_typo_profile and the configuration read from the widgets.  Only   *)
(* the fields of the three ranges are kept; the numbers are the source's.  *)
(***************************************************************************)
HUMAN_PROFILE_SMOOTH == "Smooth"
HUMAN_PROFILE_NATURAL == "Natural"
HUMAN_PROFILE_SLOW == "Slow & Deliberate"
HUMAN_PROFILE_CUSTOM == "Custom"
TYPO_PROFILE_OFF == "Off"
TYPO_PROFILE_SUBTLE == "Subtle"
TYPO_PROFILE_NATURAL == "Natural"
TYPO_PROFILE_MESSY == "Messy but realistic"

HumanTypingConfig ==
    [ profile                  |-> HUMAN_PROFILE_NATURAL,
      burst_min_chars          |-> 8,
      burst_max_chars          |-> 20,
      typo_profile             |-> TYPO_PROFILE_NATURAL,
      typo_cooldown_min_chars  |-> 28,
      typo_cooldown_max_chars  |-> 72,
      typo_awareness_min_chars |-> 2,
      typo_awareness_max_chars |-> 9 ]

TypoTiming(config, name, cooldown_min, cooldown_max, awareness_min, awareness_max) ==
    [config EXCEPT !.typo_profile             = name,
                   !.typo_cooldown_min_chars  = cooldown_min,
                   !.typo_cooldown_max_chars  = cooldown_max,
                   !.typo_awareness_min_chars = awareness_min,
                   !.typo_awareness_max_chars = awareness_max]

apply_typo_profile(config, profile) ==
    IF profile = TYPO_PROFILE_OFF THEN TypoTiming(config, TYPO_PROFILE_OFF, 60, 120, 2, 8)
    ELSE IF profile = TYPO_PROFILE_SUBTLE THEN TypoTiming(config, TYPO_PROFILE_SUBTLE, 45, 110, 2, 6)
    ELSE IF profile = TYPO_PROFILE_MESSY THEN TypoTiming(config, TYPO_PROFILE_MESSY, 20, 60, 3, 12)
    ELSE TypoTiming(config, TYPO_PROFILE_NATURAL, 28, 72, 2, 9)

Preset(profile, burst_min, burst_max) ==
    apply_typo_profile([HumanTypingConfig EXCEPT !.profile = profile,
                                                 !.burst_min_chars = burst_min,
                                                 !.burst_max_chars = burst_max],
                       TYPO_PROFILE_OFF)

human_profile_defaults(profile) ==
    IF profile = HUMAN_PROFILE_SMOOTH THEN Preset(HUMAN_PROFILE_SMOOTH, 14, 24)
    ELSE IF profile = HUMAN_PROFILE_SLOW THEN Preset(HUMAN_PROFILE_SLOW, 6, 12)
    ELSE Preset(HUMAN_PROFILE_NATURAL, 8, 20)

\* A spin box holds text: it parses as an integer or it does not.
SpinValues == {-1, 0, 1, 6, 8, 12, 20, 24, 100, 101}
SpinTexts == {[valid |-> FALSE, value |-> 0]} \cup {[valid |-> TRUE, value |-> v] : v \in SpinValues}

clamp_int(value, min_value, max_value) == Max(min_value, Min(max_value, value))

read_int(widget, default, min_value, max_value) ==
    clamp_int(IF widget.valid THEN widget.value ELSE default, min_value, max_value)

BurstRead(ui) ==
    LET base == human_profile_defaults(IF ui.profile # HUMAN_PROFILE_CUSTOM THEN ui.profile
                                       ELSE HUMAN_PROFILE_NATURAL)
        lo   == read_int(ui.burst_min, base.burst_min_chars, 1, 100)
    IN  [base EXCEPT !.profile = ui.profile,
                     !.burst_min_chars = lo,
                     !.burst_max_chars = read_int(ui.burst_max, base.burst_max_chars, 1, 100)]

TypoRead(ui, config) ==
    LET typo_profile == IF ui.typo_profile = "" THEN TYPO_PROFILE_NATURAL ELSE ui.typo_profile
    IN  [apply_typo_profile(config, typo_profile) EXCEPT !.typo_profile = typo_profile]

build_human_config_from_ui_NoSwap(ui) == TypoRead(ui, BurstRead(ui))

build_human_config_from_ui(ui) ==
    LET config == BurstRead(ui)
    IN  TypoRead(ui, IF config.burst_max_chars < config.burst_min_chars
                     THEN [config EXCEPT !.burst_max_chars = config.burst_min_chars]
                     ELSE config)

HumanProfileNames ==
    {HUMAN_PROFILE_SMOOTH, HUMAN_PROFILE_NATURAL, HUMAN_PROFILE_SLOW, HUMAN_PROFILE_CUSTOM, "Other"}
TypoProfileNames ==
    {TYPO_PROFILE_OFF, TYPO_PROFILE_SUBTLE, TYPO_PROFILE_NATURAL, TYPO_PROFILE_MESSY, "", "Other"}
ConfigFunctions == {"human_profile_defaults", "apply_typo_profile", "_build_human_config_from_ui"}

InitConfig ==
    /\ input \in [ fn           : ConfigFunctions,
                   profile      : HumanProfileNames,
                   typo_profile : TypoProfileNames,
                   burst_min    : SpinTexts,
                   burst_max    : SpinTexts ]
    /\ input.fn # "_build_human_config_from_ui" =>
           input.burst_min = [valid |-> FALSE, value |-> 0] /\ input.burst_max = input.burst_min
    /\ output = NotApplied
    /\ state = [status |-> STATUS_IDLE]
    /\ wk = [w \in Workers |-> Unstarted]
    /\ raises_left = 0
    /\ finish_queue = <<>>

ApplyConfig ==
    /\ output = NotApplied
    /\ output' =
         [ applied |-> TRUE,
           config  |-> CASE input.fn = "human_profile_defaults" ->
                              human_profile_defaults(input.profile)
                         [] input.fn = "apply_typo_profile" ->
                              apply_typo_profile(human_profile_defaults(input.profile),
                                                 input.typo_profile)
                         [] OTHER -> build_human_config_from_ui(input) ]
    /\ UNCHANGED <<input, state, wk, raises_left, finish_queue>>

NextConfig == ApplyConfig

SpecConfig == InitConfig /\ [][NextConfig]_vars

\* C3: _build_delay_contexts returns exactly len(text) contexts and their
\* char fields, in order, are the text
C3_ContextsReconstructText ==
    output.applied =>
        /\ Len(output.contexts) = Len(input)
        /\ [i \in 1..Len(output.contexts) |-> output.contexts[i].char] = input

C3_Witness ==
    /\ output.applied
    /\ Len(input) = MaxBuildLen
    /\ Len(output.lines) >= 3
    /\ \E i \in 1..Len(input) : input[i] = "p"

(* --------------------------- the target's buffer ----------------------- *)
\* what the target holds after the sends: a character is appended, a
\* backspace removes the last character
RECURSIVE Buffer(_)
Buffer(sends) ==
    IF sends = <<>> THEN <<>>
    ELSE LET before == Buffer(SubSeq(sends, 1, Len(sends) - 1))
             ch     == sends[Len(sends)]
         IN  IF ch # BS THEN Append(before, ch)
             ELSE IF before = <<>> THEN <<>>
             ELSE SubSeq(before, 1, Len(before) - 1)

\* the thread is in _type_char_by_char or has just returned from it
InCharDriver(w) ==
    /\ wk[w].mode # MODE_LINE
    /\ wk[w].pc \notin {"unstarted", "w_start", "cd_loop", "cd_sleep", "w_activate",
                        "w_click", "w_setup", "w_except", "w_end", "w_crashed"}

\* C1: whenever the phase is RESUME_NORMAL after a correction, with the stream
\* at next_index = j, the target's buffer is exactly the first j characters of
\* the text
C1_CorrectionRoundTrip ==
    \A w \in Workers :
        InCharDriver(w) /\ wk[w].phase = RESUME_NORMAL =>
            Buffer(wk[w].sent) = SubSeq(wk[w].text, 1, wk[w].next_index)

\* a typo made at index 0 was noticed one character later and corrected
C1_Witness ==
    \E w \in Workers :
        /\ InCharDriver(w) /\ wk[w].phase = RESUME_NORMAL
        /\ wk[w].typo_event.some /\ wk[w].typo_event.typo_index = 0
        /\ wk[w].next_index = 2
        /\ Len(wk[w].sent) = 6
        /\ wk[w].sent[1] # wk[w].text[1]

\* C2: whenever _type_char_by_char returns True no TypoEvent is pending and the
\* target's buffer is the whole text; so a typo made on the last character has
\* been backspaced and retyped before True is returned
C2_TrueMeansCorrected ==
    \A w \in Workers :
        InCharDriver(w) /\ wk[w].pc = "w_finish" /\ wk[w].returned = "True" =>
            /\ ~wk[w].typo_event.some
            /\ wk[w].phase = TYPING_NORMAL
            /\ Buffer(wk[w].sent) = wk[w].text

\* True is returned after a typo on the last character: the wrong character,
\* one backspace and the right character end the sends
C2_Witness ==
    \E w \in Workers :
        LET n == Len(wk[w].text)
        IN  /\ InCharDriver(w) /\ wk[w].pc = "w_finish" /\ wk[w].returned = "True"
            /\ n = MaxTextLen
            /\ Len(wk[w].sent) = n + 2
            /\ wk[w].sent[n] # wk[w].text[n]
            /\ wk[w].sent[n + 1] = BS
            /\ wk[w].sent[n + 2] = wk[w].text[n]
(* ------------------------------ the sinks ------------------------------ *)
\* C4: on_done is called exactly once per session, on every path of _worker:
\* never twice, and once when the thread has ended
C4_DoneExactlyOnce ==
    \A w \in Workers :
        /\ Len(wk[w].done) <= 1
        /\ wk[w].pc \in {"w_end", "w_crashed"} => Len(wk[w].done) = 1

\* C5: the driver returns True if and only if the whole text was delivered
C5_TrueIffDelivered ==
    \A w \in Workers :
        wk[w].pc = "w_finish" =>
            (wk[w].returned = "True" <=> Buffer(wk[w].sent) = wk[w].text)

\* the on_progress calls of the typing phase (the countdown's have line_index -1)
TypingProgress(r) == SelectSeq(r.progress, LAMBDA call : call[1] # -1)

GuiStep == OnPause \/ OnStop \/ GuiFinish \/ \E w \in Workers : OnStart(w)

\* C9: under any sequence of Start, Pause and Stop at most one thread created
\* by start_typing is live
C9_OneLiveWorker == Cardinality({w \in Workers : Live(w)}) <= 1

\* C10: while a session runs, no step of the GUI thread writes status,
\* line_index, char_index, total_lines or total_chars, and no step of the
\* typing thread writes is_paused or stop_requested
C10_SoleWriters ==
    [][ SessionRunning =>
          /\ GuiStep => /\ state'.status = state.status
                        /\ state'.line_index = state.line_index
                        /\ state'.char_index = state.char_index
                        /\ state'.total_lines = state.total_lines
                        /\ state'.total_chars = state.total_chars
          /\ WorkerStep => /\ state'.is_paused = state.is_paused
                           /\ state'.stop_requested = state.stop_requested ]_vars
(* ------------------------- stop, pause and failure --------------------- *)
\* the thread is inside _wait_while_paused or _sleep_with_controls
InControls(w) == wk[w].pc \in {"wp_loop", "wp_stop", "wp_ret", "sl_stop", "sl_pause"}

\* the driver returned False and on_done(False, "") was the first on_done call
CancelledDone(w) ==
    /\ wk[w].returned = "False"
    /\ wk[w].done # <<>>
    /\ wk[w].done[1] = <<FALSE, "">>

\* C11: a pause cannot block a pending stop: once stop_requested and is_paused
\* are both set while the thread is inside _wait_while_paused or
\* _sleep_with_controls, then, unless the pause is released, the driver
\* returns False and on_done(False, "") is called
C11_PauseCannotBlockStop ==
    \A w \in Workers :
        (InControls(w) /\ state.stop_requested /\ state.is_paused)
            ~> (~state.is_paused \/ CancelledDone(w))

\* a session stopped under a pause that was never released, part of the text
\* typed
C11_Witness ==
    \E w \in Workers :
        /\ wk[w].pc = "w_end"
        /\ state.is_paused /\ state.stop_requested
        /\ CancelledDone(w) /\ Len(wk[w].done) = 1
        /\ wk[w].sent # <<>> /\ Len(wk[w].sent) < Len(state.text)

\* stop_requested is set and the countdown of at least one second has not
\* completed
StopInCountdown(w) ==
    /\ state.stop_requested
    /\ wk[w].countdown >= 1
    /\ wk[w].pc \in {"w_start", "cd_loop", "cd_sleep"}

\* _worker has returned or died
Ended(w) == wk[w].pc \in {"w_end", "w_crashed"}

\* C12: if stop is requested after start_typing is called and before the
\* countdown completes, send_fn is never called and the session ends with
\* on_done(False, "")
C12_StopInCountdownCancels ==
    \A w \in Workers :
        [](StopInCountdown(w) =>
              /\ [](wk[w].sent = <<>>)
              /\ <>(Ended(w) /\ wk[w].done # <<>> /\ wk[w].done[1] = <<FALSE, "">>))

\* C13: when activate_window returns False for a non-zero target_hwnd the
\* worker sets status to STATUS_STOPPED, calls on_done(False, "Could not
\* activate target window") and makes no send_fn call and no click_at call
C13_ActivationFailureStops ==
    \A w \in Workers :
        /\ \A k \in 1..Len(wk[w].done) :
              wk[w].done[k][2] = "Could not activate target window" =>
                  /\ k = 1 /\ ~wk[w].done[k][1]
                  /\ state.status = STATUS_STOPPED
                  /\ wk[w].activations = 1
                  /\ wk[w].sent = <<>>
                  /\ wk[w].clicks = <<>>
                  /\ wk[w].pc \in {"w_end", "w_except", "w_crashed"}
        /\ wk[w].pc \in {"w_end", "w_crashed"} /\ wk[w].returned = "none"
             /\ wk[w].activations = 1 /\ wk[w].clicks = <<>>
             /\ state.use_coords /\ state.coord_x # 0 =>
                wk[w].done[1] = <<FALSE, "Could not activate target window">>

\* the activation failed in a session that was to click at (5, 7)
C13_Witness ==
    \E w \in Workers :
        /\ wk[w].pc = "w_end"
        /\ wk[w].done = << <<FALSE, "Could not activate target window">> >>
        /\ state.status = STATUS_STOPPED
        /\ state.use_coords /\ state.coord_x = 5
        /\ wk[w].clicks = <<>> /\ wk[w].sent = <<>>

\* C14: any exception raised during the run is caught inside the worker: no
\* exception propagates out of the thread, and a session in which a callback
\* raised ends with status STATUS_STOPPED and a last on_done call with
\* completed False and a non-empty message
C14_ExceptionsCaught ==
    \A w \in Workers :
        /\ wk[w].pc # "w_crashed"
        /\ wk[w].pc = "w_end" /\ raises_left < MaxRaises =>
              /\ state.status = STATUS_STOPPED
              /\ ~wk[w].done[Len(wk[w].done)][1]
              /\ wk[w].done[Len(wk[w].done)][2] # ""

\* C15: whenever a session ends because a stop request was observed, in the
\* countdown or by a driver returning False, on_done is called with completed
\* False and an empty message and state.status is STATUS_STOPPED at that call;
\* no other path calls on_done(False, "")
C15_CancelledMeansStopped ==
    \A w \in Workers :
        /\ wk[w].returned = "False" => state.stop_requested
        /\ wk[w].returned = "False" /\ wk[w].pc # "w_finish" =>
              wk[w].done[1] = <<FALSE, "">>
        /\ Ended(w) /\ wk[w].activations = 0 /\ raises_left = MaxRaises =>
              state.stop_requested /\ wk[w].done = << <<FALSE, "">> >>
        /\ wk[w].done # <<>> /\ wk[w].done[1] = <<FALSE, "">> =>
              state.stop_requested /\ state.status = STATUS_STOPPED

\* a driver stopped in the middle of the text, on_done(False, "") called once
C15_Witness ==
    \E w \in Workers :
        /\ wk[w].pc = "w_end" /\ wk[w].returned = "False"
        /\ wk[w].done = << <<FALSE, "">> >>
        /\ state.status = STATUS_STOPPED
        /\ wk[w].sent # <<>> /\ Len(wk[w].sent) < Len(state.text)

(* --------------------------- plain typing ------------------------------ *)
\* the session types char by char with FixedDelayStrategy
FixedChar(w) ==
    /\ wk[w].mode = MODE_CHAR
    /\ SelectStrategy(wk[w].mode, wk[w].human_config) = FIXED

\* the char_index values of the on_progress calls of the typing phase
CharIndexes(r) == [k \in 1..Len(TypingProgress(r)) |-> TypingProgress(r)[k][2]]

\* no stop was requested, no callback raised and the window was activated
Undisturbed(w) ==
    /\ ~state.stop_requested
    /\ raises_left = MaxRaises
    /\ \A k \in 1..Len(wk[w].done) :
          wk[w].done[k][2] # "Could not activate target window"

\* C16: in char mode with FixedDelayStrategy the send_fn calls are the
\* characters of the text in order, with no substitute and no backspace, the
\* phase never leaves TYPING_NORMAL, on_progress is called with char_index
\* 1, 2, ..., and with no stop the driver returns True after all n characters
\* and n on_progress calls and the session ends with on_done(True, "")
C16_FixedCharTypesText ==
    \A w \in Workers :
        FixedChar(w) =>
            /\ InCharDriver(w) =>
                  /\ wk[w].phase = TYPING_NORMAL
                  /\ wk[w].typo_event = NoTypo
                  /\ wk[w].sent = SubSeq(wk[w].text, 1, wk[w].next_index)
                  /\ CharIndexes(wk[w]) = [k \in 1..wk[w].next_index |-> k]
            /\ wk[w].pc = "w_finish" /\ ~state.stop_requested =>
                  /\ wk[w].returned = "True"
                  /\ wk[w].next_index = Len(wk[w].text)
            /\ Ended(w) /\ Undisturbed(w) =>
                  /\ wk[w].sent = state.text
                  /\ CharIndexes(wk[w]) = [k \in 1..Len(state.text) |-> k]
                  /\ wk[w].done = << <<TRUE, "">> >>
                  /\ state.status = STATUS_DONE

\* a two-line text typed to its end at a fixed delay
C16_Witness ==
    \E w \in Workers :
        /\ FixedChar(w) /\ Ended(w) /\ Undisturbed(w)
        /\ state.text = <<NL, "p">>
        /\ wk[w].sent = <<NL, "p">>
        /\ CharIndexes(wk[w]) = <<1, 2>>
        /\ wk[w].done = << <<TRUE, "">> >>

\* the on_progress call that ends line k (counted from 1): its index and the
\* number of characters of the text up to and including its separator
RECURSIVE LineProgress(_, _)
LineProgress(lines, k) ==
    <<k - 1, Len(lines[k])
               + (IF k < Len(lines) THEN 1 ELSE 0)
               + (IF k = 1 THEN 0 ELSE LineProgress(lines, k - 1)[2])>>

\* C17: in line mode the send_fn calls are the characters of the text in
\* order, one separator after every line but the last, and on_progress is
\* called once per line; with no stop the driver returns True after the whole
\* text, the number of on_progress calls is the number of lines and the last
\* one reports char_index len(text)
C17_LineModeTypesText ==
    \A w \in Workers :
        wk[w].mode = MODE_LINE =>
            LET calls == TypingProgress(wk[w])
                lines == SplitLines(state.text)
            IN  /\ Len(wk[w].sent) <= Len(state.text)
                /\ wk[w].sent = SubSeq(state.text, 1, Len(wk[w].sent))
                /\ Len(calls) <= Len(lines)
                /\ wk[w].pc \notin {"w_except", "w_crashed"} =>
                      \A k \in 1..Len(calls) : calls[k] = LineProgress(lines, k)
                /\ wk[w].returned = "True" =>
                      /\ wk[w].sent = state.text
                      /\ Len(calls) = Len(lines)
                      /\ calls[Len(calls)][2] = Len(state.text)
                /\ wk[w].pc = "w_finish" /\ ~state.stop_requested =>
                      wk[w].returned = "True"
                /\ Ended(w) /\ Undisturbed(w) =>
                      /\ wk[w].returned = "True"
                      /\ wk[w].done = << <<TRUE, "">> >>

\* two lines typed to the end: three sends, the separator among them, and two
\* on_progress calls
C17_Witness ==
    \E w \in Workers :
        /\ wk[w].mode = MODE_LINE /\ Ended(w) /\ Undisturbed(w)
        /\ state.text = <<"p", NL>>
        /\ wk[w].sent = <<"p", NL>>
        /\ TypingProgress(wk[w]) = << <<0, 2>>, <<1, 2>> >>

\* C18: HumanLikeDelayStrategy is used only when human_config is given, its
\* enabled flag is true and the mode is not MODE_LINE; in line mode no typo is
\* ever injected (no backspace and no substitute character is sent) whatever
\* human_config says
C18_HumanOnlyInCharMode ==
    \A w \in Workers :
        /\ wk[w].strategy = HUMAN =>
              /\ wk[w].human_config.given
              /\ wk[w].human_config.enabled
              /\ wk[w].mode # MODE_LINE
        /\ wk[w].mode = MODE_LINE =>
              /\ \A k \in 1..Len(wk[w].sent) :
                    wk[w].sent[k] # BS /\ k <= Len(state.text)
                       /\ wk[w].sent[k] = state.text[k]
              /\ wk[w].pc \in {"l_top", "l_line", "l_char", "l_send", "l_next"} =>
                    wk[w].phase = TYPING_NORMAL /\ wk[w].typo_event = NoTypo

\* line mode under an enabled human_config with typos on: a letter was sent
\* as it is and the strategy is the fixed one
C18_Witness ==
    \E w \in Workers :
        /\ wk[w].mode = MODE_LINE /\ wk[w].pc = "w_finish"
        /\ wk[w].human_config.given /\ wk[w].human_config.enabled
        /\ wk[w].human_config.typo_enabled
        /\ wk[w].strategy = FIXED
        /\ wk[w].returned = "True"
        /\ wk[w].sent = <<"p", "p">>

(* ------------------------------ strategies ----------------------------- *)
\* C19: FixedDelayStrategy.build_typo_event returns None for every context,
\* and get_delay returns exactly the configured char delay for every character
\* but the separator and exactly the configured line delay for the separator
C19_FixedStrategyIsPlain ==
    output.applied =>
        /\ Len(output.events) = Len(input.text)
        /\ Len(output.delays) = Len(input.text)
        /\ \A k \in 1..Len(input.text) :
              /\ output.events[k] = {NoTypo}
              /\ output.delays[k] = { IF input.text[k] = NL THEN input.line_delay
                                      ELSE input.char_delay }

\* a letter and a separator, with different delays
C19_Witness ==
    /\ output.applied
    /\ input.text = <<"p", NL>>
    /\ input.char_delay = 1 /\ input.line_delay = 0
    /\ output.delays = <<{1}, {0}>>
    /\ output.events = <<{NoTypo}, {NoTypo}>>

\* the first index in from..upto of a character of `chars` in the line, or 0
FirstOf(line, chars, from, upto) ==
    LET found == {i \in from..upto : line[i] \in chars}
    IN  IF found = {} THEN 0 ELSE CHOOSE i \in found : \A j \in found : i <= j

\* the quote character of the string literal still open after the first
\* `upto` characters of a line without backslash, read as a sequence of string
\* literals from index `from` on; "" when none is open
RECURSIVE OpenQuote(_, _, _)
OpenQuote(line, from, upto) ==
    LET opening == FirstOf(line, {"'", "\""}, from, upto)
        closing == IF opening = 0 THEN 0
                   ELSE FirstOf(line, {line[opening]}, opening + 1, upto)
    IN  IF opening = 0 THEN ""
        ELSE IF closing = 0 THEN line[opening]
        ELSE OpenQuote(line, closing + 1, upto)

\* how many of the first `upto` characters of the line are the character q
CountOf(line, q, upto) == Cardinality({i \in 1..upto : line[i] = q})

\* the character at column col (from 0) of the line is to be left alone in
\* safe-code mode: the line has a backslash, or the column lies in the
\* leading white space, or the line up to the column has an odd number of
\* quote characters of the type of the literal open there
SafeCodeProtected(line, col) ==
    \/ "\\" \in Range(line)
    \/ \A i \in 1..(col + 1) : line[i] \in {" ", "\t"}
    \/ LET q == OpenQuote(line, 1, col + 1)
       IN  q # "" /\ CountOf(line, q, col + 1) % 2 = 1

\* C20: with safe_code_typo_mode on, build_typo_event never returns a
\* TypoEvent for a character whose line up to that column contains an odd
\* number of unescaped quote characters of the active quote type, nor for a
\* character inside the line's leading white space, nor for any character of
\* a line that contains a backslash
C20_SafeCodeNeverTyposInStrings ==
    output.applied =>
        \A k \in 1..Len(output.contexts) :
            /\ output.contexts[k].col_index < Len(output.contexts[k].line_text)
            /\ SafeCodeProtected(output.contexts[k].line_text,
                                 output.contexts[k].col_index)
            => output.events[k] = {NoTypo}

\* the same letter outside and inside a string literal: a typo may be
\* injected in the first and never in the second
C20_Witness ==
    /\ output.applied
    /\ input = <<"p", "'", "p">>
    /\ \E event \in output.events[1] : event.some
    /\ output.events[3] = {NoTypo}

(* ------------------------------- C22 ----------------------------------- *)
\* C22: the burst counter of a thread typing with HumanLikeDelayStrategy is
\* never negative and never above max(1, burst_max_chars); after a get_delay
\* call it stays below that maximum, so no burst runs for more than
\* burst_max_chars ordinary characters before its boundary pause or a
\* separator ends it
C22_BurstBound ==
    \A w \in Workers :
        wk[w].strategy = HUMAN =>
            /\ 0 <= wk[w].burst_remaining
            /\ wk[w].burst_remaining <= Max(1, wk[w].human_config.burst_max_chars)
            /\ wk[w].burst_remaining < Max(1, wk[w].human_config.burst_max_chars)

C22_Witness ==
    \E w \in Workers :
        /\ wk[w].strategy = HUMAN
        /\ wk[w].burst_remaining = 1
        /\ wk[w].human_config.burst_max_chars = 2
        /\ Len(wk[w].sent) = 1

(* ------------------------------- C23 ----------------------------------- *)
\* the thread is past the optional click of _worker
PastClick(w) == wk[w].pc = "w_setup" \/ wk[w].sent # <<>>

\* C23: with state.use_coords set, once the thread is past the click step
\* click_at has been invoked exactly once, at (coord_x, coord_y), whatever the
\* coordinates are, and no character is sent before it; without use_coords
\* click_at is never invoked
C23_ClickOncePerSession ==
    \A w \in Workers :
        /\ state.use_coords /\ PastClick(w) =>
              wk[w].clicks = << <<state.coord_x, state.coord_y>> >>
        /\ ~state.use_coords => wk[w].clicks = <<>>
        /\ Len(wk[w].clicks) <= 1

(* ------------------------------- C24 ----------------------------------- *)
\* the steps of the correction cycle
PhaseCycle ==
    { <<TYPING_NORMAL, TYPO_ACTIVE_UNNOTICED>>,
      <<TYPO_ACTIVE_UNNOTICED, TYPO_NOTICED_HESITATING>>,
      <<TYPO_NOTICED_HESITATING, CORRECTING_BACKSPACE>>,
      <<CORRECTING_BACKSPACE, CORRECTING_RETYPE>>,
      <<CORRECTING_RETYPE, RESUME_NORMAL>>,
      <<RESUME_NORMAL, TYPING_NORMAL>> }

\* C24: inside _type_char_by_char every step that changes the phase takes it
\* to its successor in the cycle TYPING_NORMAL, TYPO_ACTIVE_UNNOTICED,
\* TYPO_NOTICED_HESITATING, CORRECTING_BACKSPACE, CORRECTING_RETYPE,
\* RESUME_NORMAL, TYPING_NORMAL: no phase is skipped and none is gone back to
C24_PhaseCycleOnly ==
    [][ \A w \in Workers :
            (InCharDriver(w) /\ InCharDriver(w)' /\ wk[w].phase' # wk[w].phase)
                => <<wk[w].phase, wk[w].phase'>> \in PhaseCycle ]_vars

\* a correction has gone round the whole cycle and typing goes on
C24_Witness ==
    \E w \in Workers :
        /\ InCharDriver(w)
        /\ wk[w].phase = TYPING_NORMAL
        /\ BS \in Range(wk[w].sent)
        /\ wk[w].next_index < Len(wk[w].contexts)

(* ------------------------------- C25 ----------------------------------- *)
\* how many backspaces end the sends
RECURSIVE TrailingBackspaces(_)
TrailingBackspaces(sends) ==
    IF sends = <<>> \/ sends[Len(sends)] # BS THEN 0
    ELSE 1 + TrailingBackspaces(SubSeq(sends, 1, Len(sends) - 1))

\* the backspace loop has run to its end and the retyping has not begun
BackspacingDone(w) ==
    /\ InCharDriver(w)
    /\ wk[w].phase = CORRECTING_RETYPE
    /\ wk[w].pc \in {"c_top", "c_phase"}

\* C25: while a TypoEvent is pending, next_index - typo_index equals its
\* chars_to_backspace (chars_typed_after_typo + 1); the backspace loop is set
\* to that number, never sends more, and when it has run to its end (no stop)
\* exactly that many backspaces have been sent, which leaves in the target
\* the text before the typo position and nothing of what was typed from it
C25_BackspacesEraseFromTypo ==
    \A w \in Workers :
        InCharDriver(w) /\ wk[w].typo_event.some =>
            LET r == wk[w]
                n == chars_to_backspace(r.typo_event)
            IN  /\ r.next_index - r.typo_event.typo_index = n
                /\ r.phase = CORRECTING_BACKSPACE /\ r.to_backspace > 0 =>
                      /\ r.to_backspace = n
                      /\ TrailingBackspaces(r.sent) <= n
                /\ BackspacingDone(w) =>
                      /\ TrailingBackspaces(r.sent) = n
                      /\ r.typo_event.typo_index <= Len(r.text)
                      /\ Buffer(r.sent) = SubSeq(r.text, 1, r.typo_event.typo_index)

\* two backspaces have erased the wrong character and the one typed after it
C25_Witness ==
    \E w \in Workers :
        /\ BackspacingDone(w)
        /\ wk[w].typo_event.some
        /\ chars_to_backspace(wk[w].typo_event) = 2
        /\ TrailingBackspaces(wk[w].sent) = 2

(* ------------------------------- C26 ----------------------------------- *)
\* what identifies a TypoEvent: the fields build_typo_event sets and the
\* driver never writes
EventIdentity(event) ==
    <<event.original_char, event.typed_wrong_char, event.typo_index,
      event.awareness_threshold_chars, event.has_threshold_words,
      event.awareness_threshold_words>>

\* C26: in _type_char_by_char a TypoEvent is pending exactly when the phase is
\* not TYPING_NORMAL; a TypoEvent appears only by a step from TYPING_NORMAL to
\* TYPO_ACTIVE_UNNOTICED with the cooldown run out, which sends its wrong
\* character; while one is pending no step replaces it by another, and every
\* character sent is the source character at its place or a backspace, never
\* a substitute
C26_OneTypoAtATime ==
    [][ \A w \in Workers :
            InCharDriver(w) /\ InCharDriver(w)' =>
                LET r  == wk[w]
                    r2 == wk[w]'
                IN  /\ r.typo_event.some <=> r.phase # TYPING_NORMAL
                    /\ r2.typo_event.some <=> r2.phase # TYPING_NORMAL
                    /\ ~r.typo_event.some /\ r2.typo_event.some =>
                          /\ r.phase = TYPING_NORMAL
                          /\ r2.phase = TYPO_ACTIVE_UNNOTICED
                          /\ r.typo_cooldown_remaining <= 0
                          /\ r2.sent = Append(r.sent, r2.typo_event.typed_wrong_char)
                    /\ r.typo_event.some /\ r2.typo_event.some =>
                          EventIdentity(r2.typo_event) = EventIdentity(r.typo_event)
                    /\ r.typo_event.some /\ r2.sent # r.sent =>
                          /\ Len(r2.sent) = Len(r.sent) + 1
                          /\ r.phase \in {TYPO_ACTIVE_UNNOTICED, CORRECTING_BACKSPACE,
                                          CORRECTING_RETYPE}
                          /\ r2.sent[Len(r2.sent)] =
                                IF r.phase = TYPO_ACTIVE_UNNOTICED
                                THEN r.contexts[r.next_index + 1].char
                                ELSE IF r.phase = CORRECTING_BACKSPACE THEN BS
                                ELSE r.contexts[r.idx + 1].char ]_vars

\* a source character has been typed after the wrong one, the typo still
\* unnoticed
C26_Witness ==
    \E w \in Workers :
        /\ InCharDriver(w)
        /\ wk[w].phase = TYPO_ACTIVE_UNNOTICED
        /\ wk[w].typo_event.chars_typed_after_typo = 1
        /\ Len(wk[w].sent) = 2
        /\ wk[w].sent[1] = wk[w].typo_event.typed_wrong_char
        /\ wk[w].sent[2] = wk[w].contexts[2].char

(* ------------------------------- C27 ----------------------------------- *)
\* C27: the cooldown counter is set only when a correction completes
\* (CORRECTING_RETYPE to RESUME_NORMAL, to a value typo_cooldown_chars may
\* return); afterwards it only goes down, by one for each source character
\* emitted in TYPING_NORMAL, and no typo is injected while it is positive: a
\* correction that drew c is followed by at least c normally typed characters
\* before the next injection
C27_CooldownSeparatesTypos ==
    [][ \A w \in Workers :
            InCharDriver(w) /\ InCharDriver(w)' =>
                LET r  == wk[w]
                    r2 == wk[w]'
                IN  /\ r.typo_cooldown_remaining >= 0
                    /\ r.typo_cooldown_remaining > 0 =>
                          r.phase \in {RESUME_NORMAL, TYPING_NORMAL}
                    /\ r2.typo_cooldown_remaining > r.typo_cooldown_remaining =>
                          /\ r.phase = CORRECTING_RETYPE
                          /\ r2.phase = RESUME_NORMAL
                          /\ r2.typo_cooldown_remaining \in
                                typo_cooldown_chars(r.strategy, r.human_config)
                    /\ r2.typo_cooldown_remaining < r.typo_cooldown_remaining =>
                          /\ r2.typo_cooldown_remaining = r.typo_cooldown_remaining - 1
                          /\ r.phase = TYPING_NORMAL
                          /\ r2.phase = TYPING_NORMAL
                          /\ r2.next_index = r.next_index + 1
                          /\ r2.sent = Append(r.sent, r.contexts[r.next_index + 1].char)
                    /\ r.phase = TYPING_NORMAL /\ r2.next_index > r.next_index
                       /\ r.typo_cooldown_remaining > 0 =>
                          r2.typo_cooldown_remaining = r.typo_cooldown_remaining - 1
                    /\ r.phase = TYPING_NORMAL /\ r2.phase # TYPING_NORMAL =>
                          r.typo_cooldown_remaining = 0 ]_vars

\* a correction is over, its cooldown is running and the next character is
\* about to be emitted
C27_Witness ==
    \E w \in Workers :
        /\ InCharDriver(w)
        /\ wk[w].pc = "c_phase"
        /\ wk[w].phase = TYPING_NORMAL
        /\ wk[w].typo_cooldown_remaining = 1
        /\ BS \in Range(wk[w].sent)
        /\ wk[w].next_index < Len(wk[w].contexts)

(* ------------------------------- C28 ----------------------------------- *)
\* the awareness thresholds of a pending TypoEvent are met
ThresholdMet(event) ==
    \/ event.chars_typed_after_typo >= event.awareness_threshold_chars
    \/ /\ event.has_threshold_words
       /\ event.words_typed_after_typo >= event.awareness_threshold_words

\* C28: chars_typed_after_typo never exceeds awareness_threshold_chars; a
\* typo is still unnoticed after an emission in TYPO_ACTIVE_UNNOTICED only if
\* neither threshold is met; the phase leaves TYPO_ACTIVE_UNNOTICED for
\* TYPO_NOTICED_HESITATING only right after the emission that meets a
\* threshold or when the input is exhausted, and with the input exhausted it
\* does so at once
C28_NoticedAtThreshold ==
    [][ \A w \in Workers :
            InCharDriver(w) /\ InCharDriver(w)' /\ wk[w].typo_event.some =>
                LET r  == wk[w]
                    r2 == wk[w]'
                IN  /\ r.typo_event.chars_typed_after_typo
                          <= r.typo_event.awareness_threshold_chars
                    /\ r.phase = TYPO_ACTIVE_UNNOTICED
                       /\ r.typo_event.chars_typed_after_typo >= 1 =>
                          ~ThresholdMet(r.typo_event)
                    /\ r.phase = TYPO_ACTIVE_UNNOTICED
                       /\ r2.phase = TYPO_NOTICED_HESITATING =>
                          \/ /\ r2.next_index = r.next_index + 1
                             /\ r2.typo_event.chars_typed_after_typo
                                   = r.typo_event.chars_typed_after_typo + 1
                             /\ ThresholdMet(r2.typo_event)
                          \/ /\ r2.next_index = r.next_index
                             /\ r.next_index >= Len(r.contexts)
                    /\ r.phase = TYPO_ACTIVE_UNNOTICED /\ r.pc = "c_phase"
                       /\ r.next_index >= Len(r.contexts) /\ r2 # r =>
                          r2.phase = TYPO_NOTICED_HESITATING ]_vars

\* the typo has just been noticed by its character threshold, two characters
\* after the wrong one
C28_Witness ==
    \E w \in Workers :
        /\ InCharDriver(w)
        /\ wk[w].phase = TYPO_NOTICED_HESITATING
        /\ wk[w].typo_event.awareness_threshold_chars = 2
        /\ wk[w].typo_event.chars_typed_after_typo = 2
        /\ wk[w].next_index < Len(wk[w].contexts)

(* ------------------------------- C29 ----------------------------------- *)
\* C29: every TypoEvent build_typo_event returns for a character has that
\* character as original_char, a letter whose lower case has an entry in the
\* adjacency map; its typed_wrong_char is a neighbour of that letter in the
\* map, in the case of original_char, and differs from original_char; its
\* typo_index is the context's global_index and its chars_typed_after_typo is
\* 0.  For a separator, a tab, a digit or a symbol no event is returned.
C29_TypoEventWellFormed ==
    output.applied /\ "events" \in DOMAIN output /\ "config" \in DOMAIN input =>
        \A k \in 1..Len(output.contexts) :
            LET context == output.contexts[k]
            IN  /\ \A event \in output.events[k] :
                      event.some =>
                          /\ event.original_char = context.char
                          /\ IsAlpha(event.original_char)
                          /\ HasNearby(Lower(event.original_char))
                          /\ Lower(event.typed_wrong_char)
                                \in Range(NearbyKeys[Lower(event.original_char)])
                          /\ IsAlpha(event.typed_wrong_char)
                          /\ IsUpper(event.typed_wrong_char) = IsUpper(event.original_char)
                          /\ event.typed_wrong_char # event.original_char
                          /\ event.typo_index = context.global_index
                          /\ event.typo_index = k - 1
                          /\ event.chars_typed_after_typo = 0
                /\ ~IsAlpha(context.char) => output.events[k] = {NoTypo}

\* an upper-case letter after a symbol has been given a wrong neighbour
C29_Witness ==
    /\ output.applied /\ "events" \in DOMAIN output /\ "config" \in DOMAIN input
    /\ Len(output.contexts) = 2
    /\ output.contexts[1].char = ";"
    /\ output.contexts[2].char = "P"
    /\ \E event \in output.events[2] : event.some /\ event.typed_wrong_char = "O"

(* ------------------------------- C30 ----------------------------------- *)
\* C30: in char mode, under one pause (is_paused set and not written since,
\* no stop requested) the thread calls send_fn at most once, whatever the
\* phase: after that one send it emits nothing until the pause is released
C30_AtMostOneSendWhilePaused ==
    \A w \in Workers :
        wk[w].mode = MODE_CHAR /\ state.is_paused /\ ~state.stop_requested =>
            wk[w].sends_while_paused <= 1

\* the pause came between the pause check and a backspace of a correction:
\* that backspace was sent under the pause and the thread now waits in
\* _wait_while_paused
C30_Witness ==
    \E w \in Workers :
        /\ wk[w].mode = MODE_CHAR
        /\ state.is_paused /\ ~state.stop_requested
        /\ wk[w].sends_while_paused = 1
        /\ wk[w].phase = CORRECTING_BACKSPACE
        /\ wk[w].sent[Len(wk[w].sent)] = BS
        /\ wk[w].pc = "wp_stop"

C31_NeighbourChars ==
    output.applied =>
        LET contexts == output.contexts
            n        == Len(contexts)
        IN  \A k \in 1..n :
                /\ contexts[k].next_char = IF k < n THEN contexts[k + 1].char ELSE ""
                /\ contexts[k].prev_char = IF k > 1 THEN contexts[k - 1].char ELSE ""

(* ------------------------------- C32 ----------------------------------- *)
\* C32: should_backspace_pause(done, total) is true exactly when every_n > 0,
\* total > every_n, done is a multiple of every_n other than 0 and
\* done < total; in particular it is false for done = 0
C32_BackspacePauseExactly ==
    output.applied /\ "pause" \in DOMAIN output =>
        LET every_n == IF input.every_n > 0 THEN input.every_n ELSE 0
        IN  output.pause <=>
               /\ every_n > 0
               /\ input.total > every_n
               /\ input.done # 0
               /\ input.done % every_n = 0
               /\ input.done < input.total

(* ------------------------------- C33 ----------------------------------- *)
\* on_progress(-1, n, 0, 0), ..., on_progress(-1, 1, 0, 0)
CountdownProgress(n) == [i \in 1..n |-> <<-1, n - i + 1>>]

InCountdown(w) == wk[w].pc \in {"cd_loop", "cd_sleep"}

C34_UnpausedTimeIsDelay ==
    output.pc = "returned" /\ output.result => output.unpaused = input.delay_s


\* C35: every configuration that human_profile_defaults, apply_typo_profile
\* or _build_human_config_from_ui produces has each of its three ranges in
\* order: burst, typo cooldown and typo awareness (maximum >= minimum).
C35_RangesOrdered ==
    output.applied =>
        /\ output.config.burst_max_chars >= output.config.burst_min_chars
        /\ output.config.typo_cooldown_max_chars >= output.config.typo_cooldown_min_chars
        /\ output.config.typo_awareness_max_chars >= output.config.typo_awareness_min_chars

\* The widgets held a burst maximum below the burst minimum.
C35_Witness ==
    /\ output.applied
    /\ input.fn = "_build_human_config_from_ui"
    /\ input.burst_min.valid /\ input.burst_max.valid
    /\ input.burst_min.value \in 2..100
    /\ input.burst_max.value \in 1..(input.burst_min.value - 1)
    /\ input.typo_profile = TYPO_PROFILE_MESSY
    /\ output.config.burst_max_chars = input.burst_min.value
    /\ output.config.typo_awareness_max_chars = 12


(* ------------------------------- C36 ----------------------------------- *)
\* the thread is between two turns of the loop of _type_char_by_char
BetweenIterations(w) ==
    /\ InCharDriver(w)
    /\ wk[w].pc \in {"c_top", "c_phase"}

\* the positions (1-based) where the target's buffer and the text differ
Differing(buffer, text) ==
    {i \in 1..Min(Len(buffer), Len(text)) : buffer[i] # text[i]}

\* C36: between loop iterations of the char-mode driver the target's buffer
\* is text[0..next_index) in TYPING_NORMAL; in TYPO_ACTIVE_UNNOTICED and
\* TYPO_NOTICED_HESITATING it has length next_index and differs from
\* text[0..next_index) at typo_index only, where it holds typed_wrong_char
C36_BufferInvariant ==
    \A w \in Workers :
        BetweenIterations(w) =>
            LET r      == wk[w]
                buffer == Buffer(r.sent)
                prefix == SubSeq(r.text, 1, r.next_index)
            IN  /\ r.next_index <= Len(r.text)
                /\ r.phase = TYPING_NORMAL => buffer = prefix
                /\ r.phase \in {TYPO_ACTIVE_UNNOTICED, TYPO_NOTICED_HESITATING} =>
                      /\ r.typo_event.some
                      /\ Len(buffer) = r.next_index
                      /\ r.typo_event.typo_index < r.next_index
                      /\ Differing(buffer, prefix) = {r.typo_event.typo_index + 1}
                      /\ buffer[r.typo_event.typo_index + 1] = r.typo_event.typed_wrong_char

\* the typo sits at the second character and has just been noticed
C36_Witness ==
    \E w \in Workers :
        /\ BetweenIterations(w)
        /\ wk[w].phase = TYPO_NOTICED_HESITATING
        /\ wk[w].typo_event.typo_index = 1
        /\ wk[w].next_index = 2
        /\ Differing(Buffer(wk[w].sent), wk[w].text) = {2}


(* ------------------------------- C37 ----------------------------------- *)
\* every backspace among the sends met a buffer that held a character
BackspacesMetText(sends) ==
    \A k \in 1..Len(sends) :
        sends[k] = BS => Buffer(SubSeq(sends, 1, k - 1)) # <<>>

\* the position up to which the target must hold the text untouched
UntouchedUpTo(r) ==
    IF r.typo_event.some THEN r.typo_event.typo_index ELSE r.next_index

\* C37: in every state of the char-mode driver, the states after a stop has
\* interrupted CORRECTING_BACKSPACE or CORRECTING_RETYPE included, the first
\* typo_index characters of the target's buffer are text[0..typo_index), the
\* buffer is never shorter than typo_index nor longer than next_index, and no
\* backspace was sent to an empty buffer
C37_CorrectionKeepsPrefix ==
    \A w \in Workers :
        InCharDriver(w) =>
            LET r      == wk[w]
                buffer == Buffer(r.sent)
                kept   == UntouchedUpTo(r)
            IN  /\ kept <= Len(buffer)
                /\ Len(buffer) <= r.next_index
                /\ r.next_index <= Len(r.text)
                /\ SubSeq(buffer, 1, Min(kept, Len(buffer))) = SubSeq(r.text, 1, kept)
                /\ BackspacesMetText(r.sent)

\* a stop has interrupted the backspace loop after the first of two
\* backspaces, and the driver has returned
C37_Witness ==
    \E w \in Workers :
        /\ InCharDriver(w)
        /\ wk[w].pc = "w_finish"
        /\ wk[w].returned = "False"
        /\ wk[w].phase = CORRECTING_BACKSPACE
        /\ wk[w].to_backspace = 2
        /\ TrailingBackspaces(wk[w].sent) = 1
        /\ Len(Buffer(wk[w].sent)) = wk[w].typo_event.typo_index + 1

\* a stop has interrupted the retyping before its last character
C37_StoppedInRetype ==
    \E w \in Workers :
        /\ wk[w].pc = "w_finish"
        /\ wk[w].returned = "False"
        /\ wk[w].phase = CORRECTING_RETYPE
        /\ Len(Buffer(wk[w].sent)) < wk[w].next_index


(* ------------------------------- C40 ----------------------------------- *)
\* the phases in which a TypoEvent is pending and the next cooldown has not
\* been drawn yet
CorrectionPhases ==
    {TYPO_ACTIVE_UNNOTICED, TYPO_NOTICED_HESITATING, CORRECTING_BACKSPACE, CORRECTING_RETYPE}

\* C40: typo_cooldown_remaining is never negative, and it is 0 whenever a
\* TypoEvent is pending in TYPO_ACTIVE_UNNOTICED, TYPO_NOTICED_HESITATING,
\* CORRECTING_BACKSPACE or CORRECTING_RETYPE
C40_CooldownZeroWhilePending ==
    \A w \in Workers :
        InCharDriver(w) =>
            /\ wk[w].typo_cooldown_remaining >= 0
            /\ wk[w].typo_event.some /\ wk[w].phase \in CorrectionPhases =>
                  wk[w].typo_cooldown_remaining = 0

\* a second typo is being corrected: more backspaces have been sent than
\* its own correction takes, so a correction came before it and drew a
\* cooldown of 0..typo_cooldown_max_chars that has run out
C40_Witness ==
    \E w \in Workers :
        /\ InCharDriver(w)
        /\ wk[w].typo_event.some
        /\ wk[w].phase = CORRECTING_RETYPE
        /\ wk[w].human_config.typo_cooldown_max_chars >= 1
        /\ Cardinality({k \in 1..Len(wk[w].sent) : wk[w].sent[k] = BS})
              > chars_to_backspace(wk[w].typo_event)
        /\ wk[w].typo_cooldown_remaining = 0


(* ------------------------------- C39 ----------------------------------- *)
\* C39: if stop is requested before the countdown loop has finished, its last
\* one-second sleep included, the worker never calls activate_window and
\* never calls click_at
C39_CountdownAbortTouchesNothing ==
    \A w \in Workers :
        [](StopInCountdown(w) =>
              [](wk[w].activations = 0 /\ wk[w].clicks = <<>>))


(* ------------------------------- C38 ----------------------------------- *)
\* _type_char_by_char has returned True and _worker has ended with status
\* STATUS_DONE after on_done(True, ""), its only on_done call
TypedToEnd(w) ==
    /\ wk[w].pc = "w_end"
    /\ wk[w].returned = "True"
    /\ wk[w].done = << <<TRUE, "">> >>
    /\ state.status = STATUS_DONE

\* C38 as stated: if stop is never requested and every pause is eventually
\* released, the char-mode driver eventually returns True and the worker
\* calls on_done(True, "") with status STATUS_DONE, whatever the text, the
\* configuration and the random draws
C38_Terminates ==
    ([]~state.stop_requested /\ []<>~state.is_paused) => <>TypedToEnd(1)

\* C38, amended: the same when stop is never requested and, from some moment
\* on, no pause is in force (finitely many pauses, each of them released)
C38_TerminatesOncePausesEnd ==
    ([]~state.stop_requested /\ <>[]~state.is_paused) => <>TypedToEnd(1)

\* the longest text typed to its end with two corrections on the way
C38_Witness ==
    /\ TypedToEnd(1)
    /\ Len(state.text) = MaxTypoLen
    /\ Buffer(wk[1].sent) = state.text
    /\ Cardinality({k \in 1..Len(wk[1].sent) : wk[1].sent[k] = BS}) >= 3
====
